---- MODULE Spec2Model ----
(***************************************************************************)
(* api-ex: saved requests, environments, template interpolation, the HTTP  *)
(* dispatcher, the history ledger and the request / run / gql commands.    *)
(*                                                                         *)
(* JavaScript strings are sequences of one-character strings, so that      *)
(* trim, indexOf, substring and the placeholder regular expression are     *)
(* computed rather than assumed.  JavaScript values are tagged records.    *)
(***************************************************************************)
EXTENDS Integers, Sequences, FiniteSets, TLC

VARIABLES
    requests,       \* data.json: the "requests" array
    environments,   \* data.json: the "environments" object (own properties)
    history,        \* history.json: the "history" array
    clock,          \* the wall clock read by new Date()
    io,             \* what the last API call returned or threw
    tpl,            \* interpolate(): the template, as written token by token
    ienv,           \* interpolate(): the variable set
    iout,           \* interpolate(): returned value and warnings emitted
    cmd,            \* the command invocation in progress or just finished
    latest,         \* per request name, the argument of the latest saveRequest
    saved,          \* per environment name saved and not removed since, its variables
    files,          \* which of the storage directory and its two files exist
    procs           \* per concurrent invocation, its position and its in-memory copy of a file

vars == <<requests, environments, history, clock, io, tpl, ienv, iout, cmd, latest, saved, files,
          procs>>

----------------------------------------------------------------------------
(* JavaScript values *)

JStr(s)  == [t |-> "string", v |-> s]
JNum(n)  == [t |-> "number", v |-> n]
JObj(f)  == [t |-> "object", v |-> f]
JNull    == [t |-> "null"]
JUndef   == [t |-> "undefined"]

\* the empty mapping {}
EmptyMap == [k \in {} |-> JUndef]

\* typeof x === 'string'
IsString(x) == x.t = "string"

\* JavaScript truthiness of a value
Truthy(x) ==
    CASE x.t = "string"    -> x.v # <<>>
      [] x.t = "number"    -> x.v # 0
      [] x.t = "null"      -> FALSE
      [] x.t = "undefined" -> FALSE
      [] OTHER             -> TRUE

Digit(n) == <<"0","1","2","3","4","5","6","7","8","9">>[n + 1]

RECURSIVE NumChars(_)
NumChars(n) ==
    IF n < 0 THEN <<"-">> \o NumChars(0 - n)
    ELSE IF n < 10 THEN <<Digit(n)>>
    ELSE NumChars(n \div 10) \o <<Digit(n % 10)>>

\* String(value)
ToStringChars(x) ==
    CASE x.t = "string"    -> x.v
      [] x.t = "number"    -> NumChars(x.v)
      [] x.t = "null"      -> <<"n","u","l","l">>
      [] x.t = "undefined" -> <<"u","n","d","e","f","i","n","e","d">>
      [] OTHER             -> <<"[","o","b","j","e","c","t"," ","O","b","j","e","c","t","]">>

----------------------------------------------------------------------------
(* String primitives *)

IsSpace(c) == c \in {" ", "\t", "\n"}

RECURSIVE SkipSpaces(_, _)
\* first index >= i of s that holds no white space (Len(s)+1 when none)
SkipSpaces(s, i) ==
    IF i <= Len(s) /\ IsSpace(s[i]) THEN SkipSpaces(s, i + 1) ELSE i

RECURSIVE SkipSpacesBack(_, _)
\* last index <= i of s that holds no white space (0 when none)
SkipSpacesBack(s, i) ==
    IF i >= 1 /\ IsSpace(s[i]) THEN SkipSpacesBack(s, i - 1) ELSE i

\* String.prototype.trim
Trim(s) ==
    LET a == SkipSpaces(s, 1)
        b == SkipSpacesBack(s, Len(s))
    IN  IF a > b THEN <<>> ELSE SubSeq(s, a, b)

\* first index >= i of s that holds c, 0 when none (1-based indexOf)
IndexFrom(s, c, i) ==
    LET hits == { j \in i..Len(s) : s[j] = c }
    IN  IF hits = {} THEN 0 ELSE CHOOSE j \in hits : \A k \in hits : j <= k

\* s.indexOf('{{') !== -1
HasOpen(s) == \E i \in 1..(Len(s) - 1) : s[i] = "{" /\ s[i + 1] = "{"

----------------------------------------------------------------------------
(* core/env.js: interpolate *)

IsKeyChar(c) == c \notin {"{", "}"} /\ ~IsSpace(c)

RECURSIVE SkipKey(_, _)
\* first index >= i of s that holds no key character
SkipKey(s, i) ==
    IF i <= Len(s) /\ IsKeyChar(s[i]) THEN SkipKey(s, i + 1) ELSE i

\* PLACEHOLDER_REGEX  /{{\s*([^{}\s]+)\s*}}/  tried at index i of s:
\* [ok, key, end] with end the index of the last character matched
PLACEHOLDER_REGEX(s, i) ==
    IF ~(i + 1 <= Len(s) /\ s[i] = "{" /\ s[i + 1] = "{")
    THEN [ok |-> FALSE, key |-> <<>>, end |-> i]
    ELSE LET k1 == SkipSpaces(s, i + 2)
             k2 == SkipKey(s, k1)
             e  == SkipSpaces(s, k2)
         IN  IF k2 > k1 /\ e + 1 <= Len(s) /\ s[e] = "}" /\ s[e + 1] = "}"
             THEN [ok |-> TRUE, key |-> SubSeq(s, k1, k2 - 1), end |-> e + 1]
             ELSE [ok |-> FALSE, key |-> <<>>, end |-> i]

\* the replacer callback: the text that replaces one match, and whether it warned
ReplacerMissingDropped(match, key, env) ==
    IF key \in DOMAIN env
    THEN [text |-> IF env[key].t \in {"null", "undefined"} THEN <<>> ELSE ToStringChars(env[key]),
          warn |-> 0]
    ELSE [text |-> <<>>, warn |-> 1]

Replacer(match, key, env) ==
    IF key \in DOMAIN env
    THEN [text |-> IF env[key].t \in {"null", "undefined"} THEN <<>> ELSE ToStringChars(env[key]),
          warn |-> 0]
    ELSE [text |-> match, warn |-> 1]

RECURSIVE ReplaceFrom(_, _, _)
\* templateString.replace(PLACEHOLDER_REGEX, replacer) from index i on:
\* leftmost matches, not overlapping, the replacement is not scanned again
\* (a match can only start at a "{{", so the scan moves from one to the next)
ReplaceFrom(s, i, env) ==
    LET opens == { j \in i..(Len(s) - 1) : s[j] = "{" /\ s[j + 1] = "{" }
    IN  IF opens = {} THEN [text |-> SubSeq(s, i, Len(s)), warn |-> 0]
        ELSE LET j == CHOOSE x \in opens : \A y \in opens : x <= y
                 m == PLACEHOLDER_REGEX(s, j)
             IN  IF m.ok
                 THEN LET r    == Replacer(SubSeq(s, j, m.end), m.key, env)
                          rest == ReplaceFrom(s, m.end + 1, env)
                      IN  [text |-> SubSeq(s, i, j - 1) \o r.text \o rest.text,
                           warn |-> r.warn + rest.warn]
                 ELSE LET rest == ReplaceFrom(s, j + 1, env)
                      IN  [text |-> SubSeq(s, i, j) \o rest.text, warn |-> rest.warn]

\* interpolate that coerces its input with String(...) first
interpolateCoercing(templateString, env) ==
    IF ~HasOpen(ToStringChars(templateString))
    THEN [value |-> JStr(ToStringChars(templateString)), warn |-> 0]
    ELSE LET r == ReplaceFrom(ToStringChars(templateString), 1, env)
         IN  [value |-> JStr(r.text), warn |-> r.warn]

\* interpolate(templateString, env): [value, warn]
interpolate(templateString, env) ==
    IF ~IsString(templateString) \/ ~HasOpen(templateString.v)
    THEN [value |-> templateString, warn |-> 0]
    ELSE LET r == ReplaceFrom(templateString.v, 1, env)
         IN  [value |-> JStr(r.text), warn |-> r.warn]

----------------------------------------------------------------------------
(* Names and values the bounded inputs are drawn from *)

DEV      == <<"d","e","v">>
QA       == <<"q","a">>
NameA    == <<"a">>
NameAB   == <<"a",".","b">>
VALUEOF  == <<"v","a","l","u","e","O","f">>

\* keys every plain object inherits from Object.prototype (the ones used here)
InheritedKeys == {VALUEOF}

KeyA == <<"A">>
KeyB == <<"B">>
KeyC == <<"C">>
KeyLowB == <<"b">>

Val1 == JStr(<<"1">>)
Val2 == JStr(<<"2">>)
Val3 == JStr(<<"3">>)

\* {A: 1, B: 2} and {C: 3}
VarsAB == (KeyA :> Val1) @@ (KeyB :> Val2)
VarsC  == (KeyC :> Val3)
VarsLowB == (KeyLowB :> Val1)

----------------------------------------------------------------------------
(* core/storage.js over lowdb: data.json *)

\* obj[key] on a plain object: own property, else inherited, else undefined
GetProp(obj, key) ==
    IF key \in DOMAIN obj THEN obj[key]
    ELSE IF key \in InheritedKeys THEN [t |-> "function", v |-> key]
    ELSE JUndef

\* obj with own property key set to value
PutProp(obj, key, value) ==
    [k \in DOMAIN obj \cup {key} |-> IF k = key THEN value ELSE obj[k]]

\* obj without own property key
DelProp(obj, key) == [k \in DOMAIN obj \ {key} |-> obj[k]]

RECURSIVE SplitDots(_)
\* the property path of a dotted string: "a.b" is <<"a", "b">>
SplitDots(s) ==
    LET d == IndexFrom(s, ".", 1)
    IN  IF d = 0 THEN <<s>>
        ELSE <<SubSeq(s, 1, d - 1)>> \o SplitDots(SubSeq(s, d + 1, Len(s)))

RECURSIVE SetPath(_, _, _)
\* lodash set(obj, path, value): intermediate non-objects are replaced by {}
SetPath(obj, path, value) ==
    IF Len(path) = 1 THEN PutProp(obj, path[1], value)
    ELSE LET cur   == GetProp(obj, path[1])
             child == IF path[1] \in DOMAIN obj /\ cur.t = "object" THEN cur.v ELSE EmptyMap
         IN  PutProp(obj, path[1], JObj(SetPath(child, Tail(path), value)))

RECURSIVE UnsetPath(_, _)
\* lodash unset(obj, path): deletes the own property at the end of the path
UnsetPath(obj, path) ==
    IF Len(path) = 1 THEN DelProp(obj, path[1])
    ELSE IF path[1] \in DOMAIN obj /\ obj[path[1]].t = "object"
         THEN PutProp(obj, path[1], JObj(UnsetPath(obj[path[1]].v, Tail(path))))
         ELSE obj

\* r.field on a request, a config or a history entry (undefined when absent)
Field(r, f) == IF f \in DOMAIN r THEN r[f] ELSE JUndef

\* getRequests()
getRequests(reqs) == reqs

\* requests.findIndex(r => r.name === name), 0 when none
FindIndex(reqs, name) ==
    IF \E i \in 1..Len(reqs) : Field(reqs[i], "name") = name
    THEN CHOOSE i \in 1..Len(reqs) :
            /\ Field(reqs[i], "name") = name
            /\ \A j \in 1..(i - 1) : Field(reqs[j], "name") # name
    ELSE 0

\* getRequestByName(name): the request or null
getRequestByName(reqs, name) ==
    IF FindIndex(reqs, name) = 0 THEN JNull ELSE JObj(reqs[FindIndex(reqs, name)])

\* Object.assign(target, source)
Assign(target, source) ==
    [f \in DOMAIN target \cup DOMAIN source |->
        IF f \in DOMAIN source THEN source[f] ELSE target[f]]

\* saveRequest with push in place of the update branch
saveRequestAlwaysPush(reqs, request) == Append(reqs, request)

\* saveRequest(request): the requests array afterwards
saveRequest(reqs, request) ==
    LET existingIndex == FindIndex(reqs, Field(request, "name"))
    IN  IF existingIndex # 0
        THEN [reqs EXCEPT ![existingIndex] = Assign(reqs[existingIndex], request)]
        ELSE Append(reqs, request)

\* getEnvironments()
getEnvironments(envs) == envs

\* saveEnvironment that merges the variables into the stored set
saveEnvironmentMerging(envs, name, variables) ==
    IF name \in DOMAIN envs /\ envs[name].t = "object"
    THEN PutProp(envs, name, JObj(Assign(envs[name].v, variables)))
    ELSE SetPath(envs, SplitDots(name), JObj(variables))

\* saveEnvironment(name, variables): db.set(`environments.${name}`, variables)
saveEnvironment(envs, name, variables) ==
    SetPath(envs, SplitDots(name), JObj(variables))

\* removeEnvironment(name): [threw, error, envs]; the error is a plain Error
removeEnvironment(envs, name) ==
    IF ~Truthy(GetProp(envs, name))
    THEN [threw |-> TRUE, error |-> [name |-> "Error", kind |-> "does not exist"],
          envs |-> envs]
    ELSE [threw |-> FALSE, error |-> [name |-> "none", kind |-> "none"],
          envs |-> UnsetPath(envs, SplitDots(name))]

----------------------------------------------------------------------------
(* core/history.js over lowdb: history.json *)

\* three decimal digits of n
Digits3(n) == <<Digit((n \div 100) % 10), Digit((n \div 10) % 10), Digit(n % 10)>>

\* new Date(ms).toISOString() within the first minute of the epoch
toISOString(ms) ==
    <<"1","9","7","0","-","0","1","-","0","1","T","0","0",":","0","0",":">>
    \o <<Digit((ms \div 10000) % 6), Digit((ms \div 1000) % 10), ".">>
    \o Digits3(ms % 1000) \o <<"Z">>

\* the value of a decimal digit character
DigitValue(c) == CHOOSE n \in 0..9 : Digit(n) = c

\* new Date(isoString).getTime() for the strings toISOString produces
ParseDate(s) ==
    DigitValue(s[18]) * 10000 + DigitValue(s[19]) * 1000
    + DigitValue(s[21]) * 100 + DigitValue(s[22]) * 10 + DigitValue(s[23])

\* recordHistory that keeps a timestamp the caller supplied
recordHistoryKeepCallerTimestamp(hist, entry, now) ==
    IF ~Truthy(entry) THEN [threw |-> TRUE, history |-> hist]
    ELSE [threw |-> FALSE,
          history |-> Append(hist, Assign(("timestamp" :> JStr(toISOString(now))), entry.v))]

\* recordHistory(entry) at clock reading now: [threw, history]
recordHistory(hist, entry, now) ==
    IF ~Truthy(entry) THEN [threw |-> TRUE, history |-> hist]
    ELSE [threw |-> FALSE,
          history |-> Append(hist, Assign(entry.v, ("timestamp" :> JStr(toISOString(now)))))]

\* the comparator the other way round: dateA - dateB
CompareAsc(dateA, dateB) == dateA - dateB

\* the comparator of getHistory's sort, on the parsed dates: dateB - dateA
SortCompare(dateA, dateB) == dateB - dateA

\* a sort that puts equally ranked elements in reverse order
SortTiesReversed(arr) ==
    LET n     == Len(arr)
        dates == [i \in 1..n |-> ParseDate(arr[i].timestamp.v)]
        rank  == [i \in 1..n |->
                    1 + Cardinality({j \in 1..n :
                          \/ SortCompare(dates[j], dates[i]) < 0
                          \/ SortCompare(dates[j], dates[i]) = 0 /\ j > i})]
    IN  IF dates = <<>> \/ rank = <<>> THEN <<>>
        ELSE [p \in 1..n |-> arr[CHOOSE i \in 1..n : rank[i] = p]]

\* Array.prototype.sort with the comparator, a stable sort: element j comes
\* before element i when the comparator says so, or when it ranks them equal
\* and j was before i
Sort(arr) ==
    LET n     == Len(arr)
        dates == [i \in 1..n |-> ParseDate(arr[i].timestamp.v)]
        rank  == [i \in 1..n |->
                    1 + Cardinality({j \in 1..n :
                          \/ SortCompare(dates[j], dates[i]) < 0
                          \/ SortCompare(dates[j], dates[i]) = 0 /\ j < i})]
    IN  IF dates = <<>> \/ rank = <<>> THEN <<>>
        ELSE [p \in 1..n |-> arr[CHOOSE i \in 1..n : rank[i] = p]]

\* arr.slice(0, end) for an integer end
Slice0(arr, end) ==
    LET e == IF end < 0 THEN (IF Len(arr) + end < 0 THEN 0 ELSE Len(arr) + end)
             ELSE (IF end > Len(arr) THEN Len(arr) ELSE end)
    IN  SubSeq(arr, 1, e)

\* the limit applied when options.limit is undefined
DefaultLimit == 10

\* the limit getHistory applies: options.limit unless undefined
LimitIgnored(limit) == DefaultLimit

LimitOf(limit) == IF limit.t # "undefined" THEN limit.v ELSE DefaultLimit

\* getHistory({limit}): the entries returned
getHistory(hist, limit) == Slice0(Sort(hist), LimitOf(limit))

----------------------------------------------------------------------------
(* Values of the variables a specification does not use *)

NoIo   == [op |-> "none"]
NoTpl  == <<>>
NoIout == [done |-> FALSE]
NoCmd  == [pc |-> "idle"]
NoLatest == [n \in {} |-> EmptyMap]
AllFiles == [dir |-> TRUE, data |-> TRUE, history |-> TRUE]
NoProcs == <<>>

----------------------------------------------------------------------------
(* SpecStore: the storage API called in any order on an empty store *)

R1 == JStr(<<"r","1">>)
R2 == JStr(<<"r","2">>)
MGet  == JStr(<<"G","E","T">>)
MPost == JStr(<<"P","O","S","T">>)
UrlPlain == JStr(<<"/","u">>)
Data1 == JStr(<<"x">>)

\* the request objects passed to saveRequest: data is present or absent
RequestInputs ==
    { ("name" :> n) @@ ("method" :> m) @@ ("url" :> UrlPlain) : n \in {R1, R2}, m \in {MGet, MPost} }
    \cup
    { ("name" :> n) @@ ("method" :> m) @@ ("url" :> UrlPlain) @@ ("data" :> Data1) :
        n \in {R1, R2}, m \in {MGet, MPost} }

SaveNames   == {DEV, NameA, NameAB}
RemoveNames == {DEV, NameA, NameAB, VALUEOF}
VarSets     == {VarsAB, VarsC}

InitStore ==
    /\ requests = <<>>
    /\ environments = EmptyMap
    /\ history = <<>>
    /\ clock = 0
    /\ io = NoIo
    /\ tpl = NoTpl
    /\ ienv = EmptyMap
    /\ iout = NoIout
    /\ cmd = NoCmd
    /\ latest = NoLatest
    /\ saved = EmptyMap
    /\ files = AllFiles
    /\ procs = NoProcs

\* getDb(DATA_FILE, ...) inside a storage call: the adapter creates a missing
\* data.json (the storage directory has to exist)
DataFileOpened == [files EXCEPT !.data = TRUE]

\* low(adapter) where the storage directory does not exist: the adapter finds
\* no file, tries to write one and fs.writeFileSync throws ENOENT; the call
\* ends there
AdapterThrows(op) ==
    /\ io' = [op |-> op, threw |-> TRUE, before |-> files,
              error |-> [name |-> "Error", kind |-> "ENOENT"]]
    /\ UNCHANGED <<requests, environments, history, clock, tpl, ienv, iout, cmd,
                   latest, saved, files, procs>>

SaveRequestOf(inputs) ==
    \E request \in inputs :
        IF ~files.dir THEN AdapterThrows("saveRequest")
        ELSE
        /\ files' = DataFileOpened
        /\ requests' = saveRequest(requests, request)
        /\ io' = [op |-> "saveRequest", request |-> request,
                  existed |-> FindIndex(requests, request.name) # 0,
                  lenBefore |-> Len(requests)]
        /\ latest' = PutProp(latest, request.name, request)
        /\ UNCHANGED <<environments, history, clock, tpl, ienv, iout, cmd, saved, procs>>

SaveRequestCall == SaveRequestOf(RequestInputs)

SaveEnvironmentOf(names, varSets) ==
    \E name \in names, variables \in varSets :
        IF ~files.dir THEN AdapterThrows("saveEnvironment")
        ELSE
        /\ files' = DataFileOpened
        /\ environments' = saveEnvironment(environments, name, variables)
        /\ io' = [op |-> "saveEnvironment", name |-> name, variables |-> variables,
                  old |-> IF name \in DOMAIN environments THEN environments[name] ELSE JUndef]
        /\ saved' = PutProp(saved, name, JObj(variables))
        /\ UNCHANGED <<requests, history, clock, tpl, ienv, iout, cmd, latest, procs>>

SaveEnvironmentCall == SaveEnvironmentOf(SaveNames, VarSets)

RemoveEnvironmentOf(names) ==
    \E name \in names :
        LET r == removeEnvironment(environments, name)
        IN  IF ~files.dir THEN AdapterThrows("removeEnvironment")
            ELSE
            /\ files' = DataFileOpened
            /\ environments' = r.envs
            /\ io' = [op |-> "removeEnvironment", name |-> name, threw |-> r.threw,
                      error |-> r.error,
                      old |-> IF name \in DOMAIN environments THEN environments[name] ELSE JUndef]
            /\ saved' = IF r.threw THEN saved ELSE DelProp(saved, name)
            /\ UNCHANGED <<requests, history, clock, tpl, ienv, iout, cmd, latest, procs>>

RemoveEnvironmentCall == RemoveEnvironmentOf(RemoveNames)

NextStore == SaveRequestCall \/ SaveEnvironmentCall \/ RemoveEnvironmentCall

SpecStore == InitStore /\ [][NextStore]_vars

\* the stored request named as the request of the last saveRequest call
StoredLike(request) == requests[FindIndex(requests, request.name)]

\* C2: after saveEnvironment(name, newVars) on a name that was stored, the
\* variable set stored under that name is exactly newVars: no key of the old
\* set survives unless newVars has it.
C2_ReplaceNotMerge ==
    (io.op = "saveEnvironment" /\ io.old.t = "object")
        => /\ io.name \in DOMAIN environments
           /\ environments[io.name] = JObj(io.variables)

\* dev = {A: 1, B: 2} saved again as dev = {C: 3} reads back as {C: 3}
C2_Witness ==
    /\ io.op = "saveEnvironment"
    /\ io.name = DEV
    /\ io.old = JObj(VarsAB)
    /\ io.variables = VarsC
    /\ GetProp(getEnvironments(environments), DEV) = JObj(VarsC)

\* C3: the stored list holds one entry per saved name, each entry carries
\* every field value of the latest save under its name, and saving a name
\* that exists leaves the number of stored requests unchanged.
C3_UniqueNameUpsert ==
    /\ \A i, j \in 1..Len(requests) : i # j => requests[i].name # requests[j].name
    /\ Len(requests) = Cardinality(DOMAIN latest)
    /\ \A n \in DOMAIN latest :
         /\ FindIndex(requests, n) # 0
         /\ \A f \in DOMAIN latest[n] : requests[FindIndex(requests, n)][f] = latest[n][f]
    /\ (io.op = "saveRequest" /\ io.existed) => Len(requests) = io.lenBefore

\* r1 saved as GET and then as POST while r2 is stored too: still two entries
C3_Witness ==
    /\ io.op = "saveRequest"
    /\ io.existed
    /\ io.request.name = R1
    /\ io.request.method = MPost
    /\ Len(requests) = 2
    /\ getRequestByName(requests, R1).v.method = MPost

\* C4: after saveRequest(new) the stored entry equals new exactly; a field of
\* the old template that new does not have is no longer stored.
C4_ReplaceWholesale ==
    io.op = "saveRequest" => StoredLike(io.request) = io.request

----------------------------------------------------------------------------
(* SpecHistory: recordHistory and getHistory while the clock advances *)

MaxEntries == 3
MaxClock == 2

UrlFirst  == JStr(<<"/","1">>)
UrlSecond == JStr(<<"/","2">>)

HistoryEntry(url) ==
    ("method" :> MGet) @@ ("url" :> url) @@ ("status" :> JNum(200)) @@ ("durationMs" :> JNum(1))

\* the arguments of recordHistory: entries, one carrying its own timestamp, and null
EntryInputs ==
    { JObj(HistoryEntry(UrlFirst)), JObj(HistoryEntry(UrlSecond)),
      JObj(HistoryEntry(UrlFirst) @@ ("timestamp" :> JStr(<<"x">>))), JNull }

\* the values of options.limit
LimitInputs == { JUndef, JNum(-1), JNum(0), JNum(1), JNum(2), JNum(MaxEntries + 2) }

InitHistory == InitStore

\* time passes between two calls
Tick ==
    /\ clock < MaxClock
    /\ clock' = clock + 1
    /\ UNCHANGED <<requests, environments, history, io, tpl, ienv, iout, cmd, latest, saved, files, procs>>

\* getHistoryDb() creates a missing history.json, unless recordHistory threw
\* before it got there
RecordHistoryOf(inputs) ==
    \E entry \in inputs :
        LET r == recordHistory(history, entry, clock)
        IN  /\ Len(history) < MaxEntries
            /\ IF ~r.threw /\ ~files.dir THEN AdapterThrows("recordHistory")
               ELSE
               /\ files' = IF r.threw THEN files ELSE [files EXCEPT !.history = TRUE]
               /\ history' = r.history
               /\ io' = [op |-> "recordHistory", entry |-> entry, threw |-> r.threw, at |-> clock]
               /\ UNCHANGED <<requests, environments, clock, tpl, ienv, iout, cmd, latest, saved, procs>>

RecordHistoryCall == RecordHistoryOf(EntryInputs)

GetHistoryCall ==
    \E limit \in LimitInputs :
        /\ io' = [op |-> "getHistory", limit |-> limit, result |-> getHistory(history, limit)]
        /\ UNCHANGED <<requests, environments, history, clock, tpl, ienv, iout, cmd, latest, saved, files, procs>>

NextHistory == Tick \/ RecordHistoryCall \/ GetHistoryCall

SpecHistory == InitHistory /\ [][NextHistory]_vars

\* the time of a stored entry, in ms
TimeOf(e) == ParseDate(e.timestamp.v)

\* how many times x occurs in seq
Count(seq, x) == Cardinality({i \in 1..Len(seq) : seq[i] = x})

Min(a, b) == IF a < b THEN a ELSE b

\* the number of entries asked for
Asked(limit) == IF limit.t = "undefined" THEN 10 ELSE limit.v

\* C7: for every limit N, getHistory({limit: N}) returns entries of the
\* ledger in non-increasing timestamp order, and they are the N entries with
\* the greatest timestamps: no entry left out is later than one returned.
C7_HistoryOrdering ==
    (io.op = "getHistory" /\ Asked(io.limit) >= 0) =>
        /\ \A i, j \in 1..Len(io.result) :
              i < j => TimeOf(io.result[i]) >= TimeOf(io.result[j])
        /\ Len(io.result) = Min(Asked(io.limit), Len(history))
        /\ \A i \in 1..Len(io.result) :
              Count(io.result, io.result[i]) <= Count(history, io.result[i])
        /\ \A k \in 1..Len(history) :
              (\E i \in 1..Len(io.result) : TimeOf(io.result[i]) < TimeOf(history[k]))
                  => Count(io.result, history[k]) = Count(history, history[k])

\* three entries at two different times, the two latest asked for
C7_Witness ==
    /\ io.op = "getHistory"
    /\ io.limit = JNum(2)
    /\ Len(history) = 3
    /\ TimeOf(history[1]) < TimeOf(history[3])
    /\ Len(io.result) = 2
    /\ io.result[1] = history[3]

\* the step of a recordHistory call
C19_RecordStep ==
    (io'.op = "recordHistory" /\ (io' # io \/ history' # history)) =>
        IF ~Truthy(io'.entry)
        THEN io'.threw /\ history' = history
        ELSE /\ ~io'.threw
             /\ Len(history') = Len(history) + 1
             /\ SubSeq(history', 1, Len(history)) = history
             /\ LET stored == history'[Len(history')]
                IN  /\ DOMAIN stored = DOMAIN io'.entry.v \cup {"timestamp"}
                    /\ \A f \in DOMAIN io'.entry.v \ {"timestamp"} :
                           stored[f] = io'.entry.v[f]
                    /\ stored["timestamp"] = JStr(toISOString(clock))

\* C19: recordHistory appends exactly one entry holding every field the caller
\* passed plus a timestamp of the time of the append; the stored timestamp is
\* that time even when the entry of the caller carries a timestamp of its own;
\* a null or absent entry fails and leaves the ledger as it was.
C19_TimestampIsAppendTime == [][C19_RecordStep]_vars

\* an entry carrying the timestamp "x" recorded at clock 1 after another entry
C19_Witness ==
    /\ io.op = "recordHistory"
    /\ ~io.threw
    /\ io.at = 1
    /\ io.entry = JObj(HistoryEntry(UrlFirst) @@ ("timestamp" :> JStr(<<"x">>)))
    /\ Len(history) = 2
    /\ history[2]["timestamp"] = JStr(toISOString(1))
    /\ history[2]["url"] = UrlFirst

----------------------------------------------------------------------------
(* SpecLedger: one entry recorded per millisecond, far past the documented *)
(* size of the ledger, and read back with getHistory                       *)

\* "limited to 100 entries"
HistoryCap == 100

\* recordHistory calls made in a row
MaxLedger == 150

LedgerLimits == { JUndef, JNum(0), JNum(11), JNum(200) }

InitLedger == InitStore

LedgerRecordCall ==
    LET r == recordHistory(history, JObj(HistoryEntry(UrlFirst)), clock + 1)
    IN  /\ Len(history) < MaxLedger
        /\ clock' = clock + 1
        /\ history' = r.history
        /\ io' = [op |-> "recordHistory", entry |-> JObj(HistoryEntry(UrlFirst)),
                  threw |-> r.threw, at |-> clock + 1]
        /\ UNCHANGED <<requests, environments, tpl, ienv, iout, cmd, latest, saved, files, procs>>

LedgerGetHistoryCall ==
    \E limit \in LedgerLimits :
        /\ io' = [op |-> "getHistory", limit |-> limit, result |-> getHistory(history, limit)]
        /\ UNCHANGED <<requests, environments, history, clock, tpl, ienv, iout, cmd, latest, saved, files, procs>>

NextLedger == LedgerRecordCall \/ LedgerGetHistoryCall

SpecLedger == InitLedger /\ [][NextLedger]_vars

\* C1: after any sequence of recordHistory calls the persisted ledger holds
\* at most 100 entries (the oldest are evicted first).
C1_HistoryCap == Len(history) <= HistoryCap

\* C8: for a limit >= 0 getHistory returns exactly min(limit, stored count)
\* entries, with 10 for the limit when it is undefined: none for limit 0 and
\* every stored entry for a limit above the stored count.
C8_LimitSemantics ==
    (io.op = "getHistory" /\ (io.limit.t = "undefined" \/ io.limit.v >= 0)) =>
        /\ io.limit.t = "undefined" => Len(io.result) = Min(10, Len(history))
        /\ io.limit.t = "number" => Len(io.result) = Min(io.limit.v, Len(history))
        /\ io.limit = JNum(0) => io.result = <<>>
        /\ (io.limit.t = "number" /\ io.limit.v > Len(history)) =>
              \A k \in 1..Len(history) : Count(io.result, history[k]) = 1

\* twelve entries stored, no limit given: ten come back
C8_Witness ==
    /\ io.op = "getHistory"
    /\ io.limit = JUndef
    /\ Len(history) = 12
    /\ Len(io.result) = 10

----------------------------------------------------------------------------
(* SpecInterp: interpolate applied to templates written token by token *)

MaxTokens == 3

KeyX == <<"X">>
KeyY == <<"Y">>

Lit(chars) == [kind |-> "lit", written |-> chars, key |-> <<>>]
Placeholder(chars, key) == [kind |-> "placeholder", written |-> chars, key |-> key]

\* literal text without an opening brace, and placeholders as a user writes them
Tokens ==
    { Lit(<<"a">>), Lit(<<"/">>), Lit(<<" ">>), Lit(<<"}">>),
      Placeholder(<<"{","{","X","}","}">>, KeyX),
      Placeholder(<<"{","{"," ","X"," ","}","}">>, KeyX),
      Placeholder(<<"{","{","Y","}","}">>, KeyY) }

\* values of a variable: a string, a string that looks like a placeholder, null
VarValues == { JStr(<<"a">>), JStr(<<"{","{","Y","}","}">>), JNull }

\* the variable sets over the keys X and Y
InterpEnvs ==
    { EmptyMap } \cup { (KeyX :> x) : x \in VarValues } \cup { (KeyY :> y) : y \in VarValues }
    \cup { (KeyX :> x) @@ (KeyY :> y) : x \in VarValues, y \in VarValues }

TemplateInputs == UNION { [1..n -> Tokens] : n \in 0..MaxTokens }

RECURSIVE Render(_)
\* the template string the tokens spell
Render(tokens) ==
    IF tokens = <<>> THEN <<>> ELSE Head(tokens).written \o Render(Tail(tokens))

InitInterp ==
    /\ requests = <<>>
    /\ environments = EmptyMap
    /\ history = <<>>
    /\ clock = 0
    /\ io = NoIo
    /\ tpl \in TemplateInputs
    /\ ienv \in InterpEnvs
    /\ iout = NoIout
    /\ cmd = NoCmd
    /\ latest = NoLatest
    /\ saved = EmptyMap
    /\ files = AllFiles
    /\ procs = NoProcs

InterpolateCall ==
    LET r == interpolate(JStr(Render(tpl)), ienv)
    IN  /\ ~iout.done
        /\ iout' = [done |-> TRUE, value |-> r.value, warn |-> r.warn]
        /\ UNCHANGED <<requests, environments, history, clock, io, tpl, ienv, cmd, latest, saved, files, procs>>

NextInterp == InterpolateCall

SpecInterp == InitInterp /\ [][NextInterp]_vars

\* what a token is expected to become
Expected(token, env) ==
    IF token.kind = "placeholder" /\ token.key \in DOMAIN env
    THEN (IF env[token.key].t = "null" THEN <<>> ELSE ToStringChars(env[token.key]))
    ELSE token.written

RECURSIVE ExpectedText(_, _)
ExpectedText(tokens, env) ==
    IF tokens = <<>> THEN <<>>
    ELSE Expected(Head(tokens), env) \o ExpectedText(Tail(tokens), env)

\* the placeholders of the template whose key the variable set lacks
Unresolved(tokens, env) ==
    {i \in 1..Len(tokens) : tokens[i].kind = "placeholder" /\ tokens[i].key \notin DOMAIN env}

\* C5: interpolate returns (it does not throw); every placeholder whose key
\* is absent stays in the output exactly as written, placeholders whose key is
\* present are substituted in the same string, and one warning is emitted per
\* unresolved occurrence.
C5_MissingKeyLeniency ==
    iout.done =>
        /\ iout.value = JStr(ExpectedText(tpl, ienv))
        /\ iout.warn = Cardinality(Unresolved(tpl, ienv))

\* interpolate("{{X}}/{{Y}}", {X: "a"}) = "a/{{Y}}" with one warning
C5_Witness ==
    /\ iout.done
    /\ Render(tpl) = <<"{","{","X","}","}","/","{","{","Y","}","}">>
    /\ ienv = (KeyX :> JStr(<<"a">>))
    /\ iout.value = JStr(<<"a","/","{","{","Y","}","}">>)
    /\ iout.warn = 1

----------------------------------------------------------------------------
(* core/http.js: sendRequest over axios *)

ContentType      == <<"C","o","n","t","e","n","t","-","T","y","p","e">>
ContentTypeLower == <<"c","o","n","t","e","n","t","-","t","y","p","e">>
ApplicationJson  == JStr(<<"a","p","p","l","i","c","a","t","i","o","n","/","j","s","o","n">>)

\* the timeout applied when config.timeout is falsy
DefaultTimeout == 30000

\* axios' own default: only 2xx resolves
ValidateStatus2xx(status) == status >= 200 /\ status < 300

\* validateStatus: () => true
ValidateStatus(status) == TRUE

\* sendRequest up to the axios call: [threw, error, axiosConfig]
sendRequestPrepare(config) ==
    IF ~Truthy(config)
    THEN [threw |-> TRUE, error |-> [name |-> "ValidationError", kind |-> "config"]]
    ELSE IF ~Truthy(Field(config.v, "method"))
    THEN [threw |-> TRUE, error |-> [name |-> "ValidationError", kind |-> "method"]]
    ELSE IF ~Truthy(Field(config.v, "url"))
    THEN [threw |-> TRUE, error |-> [name |-> "ValidationError", kind |-> "url"]]
    ELSE
      LET timeout == IF Truthy(Field(config.v, "timeout"))
                     THEN Field(config.v, "timeout") ELSE JNum(DefaultTimeout)
          given   == IF Truthy(Field(config.v, "headers"))
                     THEN Field(config.v, "headers").v ELSE EmptyMap
          headers == IF /\ ~Truthy(GetProp(given, ContentType))
                        /\ ~Truthy(GetProp(given, ContentTypeLower))
                        /\ Truthy(Field(config.v, "data"))
                     THEN PutProp(given, ContentType, ApplicationJson)
                     ELSE given
      IN  [threw |-> FALSE,
           axiosConfig |-> [method  |-> Field(config.v, "method"),
                            url     |-> Field(config.v, "url"),
                            headers |-> headers,
                            data    |-> Field(config.v, "data"),
                            timeout |-> timeout]]

\* s.includes(sub)
Includes(s, sub) ==
    \E i \in 1..(Len(s) - Len(sub) + 1) : SubSeq(s, i, i + Len(sub) - 1) = sub

ECONNABORTED      == <<"E","C","O","N","N","A","B","O","R","T","E","D">>
ErrBadResponse    == <<"E","R","R","_","B","A","D","_","R","E","S","P","O","N","S","E">>
StatusCodeMessage == <<"R","e","q","u","e","s","t"," ","f","a","i","l","e","d"," ","w","i","t","h"," ","s","t","a","t","u","s"," ","c","o","d","e">>
TimeoutWord       == <<"t","i","m","e","o","u","t">>

\* `Request timeout after ${timeout}ms: ${config.method} ${config.url}`
TimeoutMessage(axiosConfig) ==
    <<"R","e","q","u","e","s","t"," ","t","i","m","e","o","u","t"," ","a","f","t","e","r"," ">> \o ToStringChars(axiosConfig.timeout)
    \o <<"m","s",":"," ">> \o ToStringChars(axiosConfig.method)
    \o <<" ">> \o ToStringChars(axiosConfig.url)

\* `HTTP ${error.response.status}: ${error.response.statusText}`
HttpStatusMessage(response) ==
    <<"H","T","T","P"," ">> \o NumChars(response.status) \o <<":"," ">>
    \o ToStringChars(response.statusText)

\* `Unable to reach ${config.url}. ${error.message}`
UnreachableMessage(axiosConfig, error) ==
    <<"U","n","a","b","l","e"," ","t","o"," ","r","e","a","c","h"," ">> \o ToStringChars(axiosConfig.url) \o <<".", " ">> \o error.message

\* `Request failed: ${error.message}`
RequestFailedMessage(error) ==
    <<"R","e","q","u","e","s","t"," ","f","a","i","l","e","d",":"," ">> \o error.message

\* the catch block of sendRequest: the NetworkError thrown for an axios error
NetworkErrorOf(axiosConfig, error) ==
    IF error.code = ECONNABORTED \/ Includes(error.message, TimeoutWord)
    THEN [name |-> "NetworkError", kind |-> "timeout",
          message |-> TimeoutMessage(axiosConfig)]
    ELSE IF error.hasResponse
    THEN [name |-> "NetworkError", kind |-> "status",
          message |-> HttpStatusMessage(error.response)]
    ELSE IF error.request
    THEN [name |-> "NetworkError", kind |-> "noresponse",
          message |-> UnreachableMessage(axiosConfig, error)]
    ELSE [name |-> "NetworkError", kind |-> "other",
          message |-> RequestFailedMessage(error)]

\* axios(axiosConfig) given what happens on the wire: a resolved response or a
\* rejection (with error.response when the status fails validateStatus)
Axios(axiosConfig, wire) ==
    IF wire.kind = "response"
    THEN IF ValidateStatus(wire.status)
         THEN [resolved |-> TRUE, response |-> wire]
         ELSE [resolved |-> FALSE,
               error |-> [code |-> ErrBadResponse, message |-> StatusCodeMessage,
                          hasResponse |-> TRUE, response |-> wire, request |-> TRUE]]
    ELSE [resolved |-> FALSE,
          error |-> [code |-> wire.code, message |-> wire.message,
                     hasResponse |-> FALSE, response |-> wire, request |-> wire.request]]

\* sendRequestFinish with a catch that returns an empty response instead of throwing
sendRequestFinishSwallow(axiosConfig, wire, elapsed) ==
    [threw |-> FALSE,
     response |-> [status     |-> JNum(IF wire.kind = "response" THEN wire.status ELSE 0),
                   statusText |-> JUndef,
                   headers    |-> EmptyMap,
                   data       |-> JUndef,
                   durationMs |-> JNum(elapsed)]]

\* sendRequest from the axios call on: the normalized response, or the error thrown
sendRequestFinish(axiosConfig, wire, elapsed) ==
    LET a == Axios(axiosConfig, wire)
    IN  IF a.resolved
        THEN [threw |-> FALSE,
              response |-> [status     |-> JNum(a.response.status),
                            statusText |-> a.response.statusText,
                            headers    |-> a.response.headers,
                            data       |-> a.response.data,
                            durationMs |-> JNum(elapsed)]]
        ELSE [threw |-> TRUE, error |-> NetworkErrorOf(axiosConfig, a.error)]

\* sendRequest(config): [dispatched, axiosConfig, threw, error | response]
sendRequest(config, wire, elapsed) ==
    LET p == sendRequestPrepare(config)
    IN  IF p.threw THEN [dispatched |-> FALSE, threw |-> TRUE, error |-> p.error]
        ELSE LET f == sendRequestFinish(p.axiosConfig, wire, elapsed)
             IN  IF f.threw
                 THEN [dispatched |-> TRUE, axiosConfig |-> p.axiosConfig,
                       threw |-> TRUE, error |-> f.error]
                 ELSE [dispatched |-> TRUE, axiosConfig |-> p.axiosConfig,
                       threw |-> FALSE, response |-> f.response]

----------------------------------------------------------------------------
(* SpecHttp: sendRequest against every outcome of the transport *)

\* status codes the transport delivers: the ends of 100-599 and one per class
Statuses == {100, 200, 204, 301, 404, 500, 599}

TextOk == JStr(<<"o","k">>)

\* what happens on the wire
WireResponse(status) ==
    [kind |-> "response", status |-> status, statusText |-> TextOk,
     headers |-> EmptyMap, data |-> TextOk]

\* the errors axios rejects with: a timeout (code ECONNABORTED), a timeout
\* known by its message only, a request that got no response, and an error
\* raised before any request was made
WireFailures ==
    { [kind |-> "timeout", code |-> ECONNABORTED, request |-> TRUE,
       message |-> <<"t","i","m","e","o","u","t"," ","o","f"," ","5","0","0","0","m","s"," ","e","x","c","e","e","d","e","d">>],
      [kind |-> "timeout", code |-> <<>>, request |-> FALSE,
       message |-> <<"t","i","m","e","o","u","t"," ","o","f"," ","3","0","0","0","0","m","s"," ","e","x","c","e","e","d","e","d">>],
      [kind |-> "noresponse", code |-> <<>>, request |-> TRUE,
       message |-> <<"N","e","t","w","o","r","k"," ","E","r","r","o","r">>],
      [kind |-> "other", code |-> <<>>, request |-> FALSE,
       message |-> <<"S","o","m","e","t","h","i","n","g"," ","w","e","n","t"," ","w","r","o","n","g">>] }

WireInputs == { WireResponse(s) : s \in Statuses } \cup WireFailures

BaseConfig == ("method" :> MGet) @@ ("url" :> UrlPlain)

ContentTypeMixed == <<"C","o","n","t","e","n","t","-","t","y","p","e">>
ContentTypeUpper == <<"C","O","N","T","E","N","T","-","T","Y","P","E">>
TimeoutText      == JStr(<<"5","s">>)

ConfigInputs ==
    { JNull,
      JObj(("url" :> UrlPlain)),
      JObj(("method" :> MGet)),
      JObj(BaseConfig),
      JObj(BaseConfig @@ ("data" :> Data1)),
      JObj(BaseConfig @@ ("data" :> Data1) @@ ("headers" :> JObj((ContentTypeLower :> TextOk)))),
      JObj(BaseConfig @@ ("timeout" :> JNum(5000))),
      JObj(BaseConfig @@ ("timeout" :> JNum(0))),
      JObj(BaseConfig @@ ("timeout" :> JNum(-1))),
      JObj(BaseConfig @@ ("timeout" :> TimeoutText)),
      JObj(BaseConfig @@ ("headers" :> JObj((ContentTypeMixed :> TextOk)))) }
    \cup { JObj(BaseConfig @@ ("data" :> Data1) @@ ("headers" :> JObj((k :> TextOk)))) :
             k \in {ContentType, ContentTypeMixed, ContentTypeUpper} }

InitHttp == InitStore

SendRequestCall ==
    \E config \in ConfigInputs, wire \in WireInputs, elapsed \in 0..(MaxClock - clock) :
        LET r == sendRequest(config, wire, elapsed)
        IN  /\ clock' = IF r.dispatched THEN clock + elapsed ELSE clock
            /\ io' = [op |-> "sendRequest", config |-> config, out |-> r,
                      wire |-> IF r.dispatched THEN wire ELSE [kind |-> "none"]]
            /\ UNCHANGED <<requests, environments, history, tpl, ienv, iout, cmd, latest, saved, files, procs>>

NextHttp == SendRequestCall

SpecHttp == InitHttp /\ [][NextHttp]_vars

\* C6: for every status code the transport delivers, sendRequest returns the
\* normalized response (status, statusText, headers, data, durationMs) with
\* that status; a 4xx or 5xx response is never a thrown failure.
C6_StatusIsNotFailure ==
    (io.op = "sendRequest" /\ io.wire.kind = "response") =>
        /\ ~io.out.threw
        /\ DOMAIN io.out.response = {"status", "statusText", "headers", "data", "durationMs"}
        /\ io.out.response.status = JNum(io.wire.status)
        /\ io.out.response.statusText = io.wire.statusText
        /\ io.out.response.headers = io.wire.headers
        /\ io.out.response.data = io.wire.data

\* the transport delivers 404 and sendRequest returns a response with status 404
C6_Witness ==
    /\ io.op = "sendRequest"
    /\ io.wire.kind = "response"
    /\ io.wire.status = 404
    /\ ~io.out.threw
    /\ io.out.response.status = JNum(404)

\* C16: every failure of the transport call is surfaced by sendRequest as a
\* NetworkError whose message includes the target URL, in the timeout case,
\* the no-response case and the case of any other transport exception alike;
\* for a timeout the message also names the configured timeout in ms.
C16_FailureNamesUrl ==
    (io.op = "sendRequest" /\ io.wire.kind \notin {"none", "response"}) =>
        /\ io.out.threw
        /\ io.out.error.name = "NetworkError"
        /\ Includes(io.out.error.message, ToStringChars(Field(io.config.v, "url")))
        /\ io.wire.kind = "timeout" =>
               Includes(io.out.error.message,
                        ToStringChars(io.out.axiosConfig.timeout) \o <<"m", "s">>)

----------------------------------------------------------------------------
(* JavaScript string and JSON primitives the commands use *)

JArr(a) == [t |-> "array", v |-> a]

LowerLetters == <<"a","b","c","d","e","f","g","h","i","j","k","l","m",
                  "n","o","p","q","r","s","t","u","v","w","x","y","z">>
UpperLetters == <<"A","B","C","D","E","F","G","H","I","J","K","L","M",
                  "N","O","P","Q","R","S","T","U","V","W","X","Y","Z">>

IsLower(c) == \E i \in 1..26 : LowerLetters[i] = c
IsUpper(c) == \E i \in 1..26 : UpperLetters[i] = c
IsAlpha(c) == IsLower(c) \/ IsUpper(c)
IsDigit(c) == c \in {"0","1","2","3","4","5","6","7","8","9"}

\* String.prototype.toUpperCase
toUpperCase(s) ==
    [i \in 1..Len(s) |->
        IF IsLower(s[i]) THEN UpperLetters[CHOOSE k \in 1..26 : LowerLetters[k] = s[i]]
        ELSE s[i]]

\* String.prototype.toLowerCase
toLowerCase(s) ==
    [i \in 1..Len(s) |->
        IF IsUpper(s[i]) THEN LowerLetters[CHOOSE k \in 1..26 : UpperLetters[k] = s[i]]
        ELSE s[i]]

\* first index >= i of s that holds no decimal digit
SkipDigits(s, i) ==
    LET stops == { j \in i..Len(s) : ~IsDigit(s[j]) }
    IN  IF stops = {} THEN Len(s) + 1 ELSE CHOOSE j \in stops : \A k \in stops : j <= k

RECURSIVE NumOf(_, _, _)
\* the number written by the decimal digits s[i..j]
NumOf(s, i, j) ==
    IF j < i THEN 0 ELSE NumOf(s, i, j - 1) * 10 + DigitValue(s[j])

\* parseInt(string) on decimal text: leading white space, an optional sign,
\* then the longest run of digits; NaN when there is none
parseInt(x) ==
    LET s == ToStringChars(x)
        a == SkipSpaces(s, 1)
        signed == a <= Len(s) /\ s[a] \in {"+", "-"}
        b == IF signed THEN a + 1 ELSE a
        e == SkipDigits(s, b)
    IN  IF e = b THEN [nan |-> TRUE, n |-> 0]
        ELSE [nan |-> FALSE,
              n |-> IF signed /\ s[a] = "-" THEN 0 - NumOf(s, b, e - 1) ELSE NumOf(s, b, e - 1)]

\* s.startsWith(p) at index i
StartsAt(s, i, p) == i + Len(p) - 1 <= Len(s) /\ SubSeq(s, i, i + Len(p) - 1) = p

RECURSIVE JsonString(_, _)
\* s[i] is the character after an opening quote: index after the closing
\* quote, 0 when the string does not end or holds a raw line break
JsonString(s, i) ==
    IF i > Len(s) \/ s[i] \in {"\n", "\t"} THEN 0
    ELSE IF s[i] = "\"" THEN i + 1
    ELSE IF s[i] = "\\" THEN (IF i + 1 > Len(s) THEN 0 ELSE JsonString(s, i + 2))
    ELSE JsonString(s, i + 1)

\* a JSON number at s[i]: index after it, 0 when there is none
JsonNumber(s, i) ==
    LET b == IF i <= Len(s) /\ s[i] = "-" THEN i + 1 ELSE i
        e == SkipDigits(s, b)
        f == IF e <= Len(s) /\ s[e] = "." THEN SkipDigits(s, e + 1) ELSE e
    IN  IF e = b \/ (e - b > 1 /\ s[b] = "0") \/ (f # e /\ f = e + 1) THEN 0 ELSE f

RECURSIVE JsonValue(_, _), JsonMembers(_, _), JsonElements(_, _)
\* a JSON value at s[i] (white space skipped): index after it, 0 on a syntax error
JsonValue(s, i0) ==
    LET i == SkipSpaces(s, i0)
    IN  IF i > Len(s) THEN 0
        ELSE IF s[i] = "{" THEN
            (LET j == SkipSpaces(s, i + 1)
             IN  IF j <= Len(s) /\ s[j] = "}" THEN j + 1 ELSE JsonMembers(s, j))
        ELSE IF s[i] = "[" THEN
            (LET j == SkipSpaces(s, i + 1)
             IN  IF j <= Len(s) /\ s[j] = "]" THEN j + 1 ELSE JsonElements(s, j))
        ELSE IF s[i] = "\"" THEN JsonString(s, i + 1)
        ELSE IF StartsAt(s, i, <<"t","r","u","e">>) THEN i + 4
        ELSE IF StartsAt(s, i, <<"n","u","l","l">>) THEN i + 4
        ELSE IF StartsAt(s, i, <<"f","a","l","s","e">>) THEN i + 5
        ELSE JsonNumber(s, i)

\* "key": value members up to the closing brace
JsonMembers(s, i0) ==
    LET i == SkipSpaces(s, i0)
    IN  IF i > Len(s) \/ s[i] # "\"" THEN 0
        ELSE LET k == JsonString(s, i + 1)
                 c == IF k = 0 THEN 0 ELSE SkipSpaces(s, k)
                 v == IF c = 0 \/ c > Len(s) \/ s[c] # ":" THEN 0 ELSE JsonValue(s, c + 1)
                 e == IF v = 0 THEN 0 ELSE SkipSpaces(s, v)
             IN  IF e = 0 \/ e > Len(s) THEN 0
                 ELSE IF s[e] = "}" THEN e + 1
                 ELSE IF s[e] = "," THEN JsonMembers(s, e + 1)
                 ELSE 0

\* array elements up to the closing bracket
JsonElements(s, i0) ==
    LET v == JsonValue(s, i0)
        e == IF v = 0 THEN 0 ELSE SkipSpaces(s, v)
    IN  IF e = 0 \/ e > Len(s) THEN 0
        ELSE IF s[e] = "]" THEN e + 1
        ELSE IF s[e] = "," THEN JsonElements(s, e + 1)
        ELSE 0

\* JSON.parse(text) succeeds
JsonParses(s) ==
    LET e == JsonValue(s, 1)
    IN  e # 0 /\ SkipSpaces(s, e) = Len(s) + 1

RECURSIVE JsonCompact(_, _, _)
\* JSON.stringify(JSON.parse(text)) for text that parses: the white space
\* between tokens is dropped, strings are kept as written
JsonCompact(s, i, inString) ==
    IF i > Len(s) THEN <<>>
    ELSE IF inString THEN
        (IF s[i] = "\\" /\ i < Len(s)
         THEN <<s[i], s[i + 1]>> \o JsonCompact(s, i + 2, TRUE)
         ELSE <<s[i]>> \o JsonCompact(s, i + 1, s[i] # "\""))
    ELSE IF IsSpace(s[i]) THEN JsonCompact(s, i + 1, FALSE)
    ELSE <<s[i]>> \o JsonCompact(s, i + 1, s[i] = "\"")

RECURSIVE JsonQuoteFrom(_, _)
\* the characters of a string inside JSON quotes, escaped as JSON.stringify does
JsonQuoteFrom(s, i) ==
    IF i > Len(s) THEN <<>>
    ELSE (CASE s[i] = "\"" -> <<"\\", "\"">>
            [] s[i] = "\\" -> <<"\\", "\\">>
            [] s[i] = "\n" -> <<"\\", "n">>
            [] s[i] = "\t" -> <<"\\", "t">>
            [] OTHER       -> <<s[i]>>) \o JsonQuoteFrom(s, i + 1)

\* JSON.stringify(string)
JsonQuote(s) == <<"\"">> \o JsonQuoteFrom(s, 1) \o <<"\"">>

----------------------------------------------------------------------------
(* core/validation.js *)

\* the indexes of the "}}" that can end a match of /\{\{.*?\}\}/ opened at j:
\* "." does not match a line break
ClosesAfter(s, j) ==
    { k \in (j + 2)..(Len(s) - 1) :
        /\ s[k] = "}" /\ s[k + 1] = "}"
        /\ \A n \in (j + 2)..(k - 1) : s[n] # "\n" }

RECURSIVE ReplaceBraces(_, _)
\* s.replace(/\{\{.*?\}\}/g, 'placeholder') from index i on: each "{{" up to
\* the first "}}" after it on the same line
ReplaceBraces(s, i) ==
    LET opens == { j \in i..(Len(s) - 1) :
                     s[j] = "{" /\ s[j + 1] = "{" /\ ClosesAfter(s, j) # {} }
    IN  IF opens = {} THEN SubSeq(s, i, Len(s))
        ELSE LET j == CHOOSE x \in opens : \A y \in opens : x <= y
                 k == CHOOSE x \in ClosesAfter(s, j) : \A y \in ClosesAfter(s, j) : x <= y
             IN  SubSeq(s, i, j - 1) \o <<"p","l","a","c","e","h","o","l","d","e","r">>
                     \o ReplaceBraces(s, k + 2)

\* /\{\{.*?\}\}/.test(s)
HasPlaceholders(s) == ReplaceBraces(s, 1) # s

SpecialSchemes == { <<"h","t","t","p">>, <<"h","t","t","p","s">>, <<"w","s">>,
                    <<"w","s","s">>, <<"f","t","p">> }

\* characters a host may not hold
ForbiddenHostChars == {" ", "<", ">", "[", "]", "^", "|", "%", "\t", "\n"}

\* first index >= i of s whose character is in (stop = TRUE) or not in
\* (stop = FALSE) the set cs, Len(s) + 1 when none
FirstIndex(s, i, cs, stop) ==
    LET hits == { j \in i..Len(s) : (s[j] \in cs) = stop }
    IN  IF hits = {} THEN Len(s) + 1 ELSE CHOOSE j \in hits : \A k \in hits : j <= k

\* host[:port] is a host the URL parser accepts, with a numeric port
HostPortOk(hostport, pc) ==
    /\ (IF pc = 0 THEN hostport ELSE SubSeq(hostport, 1, pc - 1)) # <<>>
    /\ \A i \in 1..(IF pc = 0 THEN Len(hostport) ELSE pc - 1) :
          hostport[i] \notin ForbiddenHostChars
    /\ pc # 0 =>
          /\ \A i \in (pc + 1)..Len(hostport) : IsDigit(hostport[i])
          /\ Len(hostport) - pc <= 5
          /\ NumOf(hostport, pc + 1, Len(hostport)) <= 65535

\* the authority [user@]host[:port] holds an acceptable host
AuthorityOk(authority, ats) ==
    IF ats = {} THEN HostPortOk(authority, IndexFrom(authority, ":", 1))
    ELSE HostPortOk(SubSeq(authority, (CHOOSE j \in ats : \A k \in ats : k <= j) + 1,
                           Len(authority)),
                    IndexFrom(SubSeq(authority, (CHOOSE j \in ats : \A k \in ats : k <= j) + 1,
                                     Len(authority)), ":", 1))

\* the part of s from index from up to the path, query or fragment
AuthorityOf(s, from) == SubSeq(s, from, FirstIndex(s, from, {"/", "\\", "?", "#"}, TRUE) - 1)

\* s, with its first colon at index colon, starts with a scheme and, for a
\* special scheme, goes on with a host
SchemeAndHostOk(s, colon) ==
    /\ colon > 1
    /\ IsAlpha(s[1])
    /\ \A i \in 2..(colon - 1) : IsAlpha(s[i]) \/ IsDigit(s[i]) \/ s[i] \in {"+", "-", "."}
    /\ toLowerCase(SubSeq(s, 1, colon - 1)) \in SpecialSchemes =>
          AuthorityOk(AuthorityOf(s, FirstIndex(s, colon + 1, {"/", "\\"}, FALSE)),
                      { j \in 1..Len(AuthorityOf(s, FirstIndex(s, colon + 1, {"/", "\\"}, FALSE))) :
                          AuthorityOf(s, FirstIndex(s, colon + 1, {"/", "\\"}, FALSE))[j] = "@" })

\* new URL(s) does not throw: s has a scheme and, for http(s), ws(s) and
\* ftp, a host (with an optional user part and a numeric port)
URLParses(s) == SchemeAndHostOk(Trim(s), IndexFrom(Trim(s), ":", 1))

\* isValidUrl(url)
isValidUrl(url) ==
    /\ Truthy(url)
    /\ IsString(url)
    /\ URLParses(ReplaceBraces(url.v, 1))

\* isValidJson(str)
isValidJson(str) == Truthy(str) /\ IsString(str) /\ JsonParses(str.v)

\* the longest name the validators accept
MaxNameLength == 50

\* the longest timeout validateTimeout accepts, in milliseconds
MaxTimeout == 600000

\* /[\/\\:*?"<>|]/.test(s)
HasInvalidNameChars(s) ==
    \E i \in 1..Len(s) : s[i] \in {"/", "\\", ":", "*", "?", "\"", "<", ">", "|"}

\* validateRequestName that returns the name as it was typed
validateRequestNameUntrimmed(name) ==
    IF ~Truthy(name) \/ ~IsString(name) THEN [threw |-> TRUE, kind |-> "required"]
    ELSE IF Trim(name.v) = <<>> THEN [threw |-> TRUE, kind |-> "empty"]
    ELSE IF Len(Trim(name.v)) > MaxNameLength THEN [threw |-> TRUE, kind |-> "long"]
    ELSE [threw |-> FALSE, value |-> name]

\* validateRequestName(name): [threw, value]
validateRequestName(name) ==
    IF ~Truthy(name) \/ ~IsString(name) THEN [threw |-> TRUE, kind |-> "required"]
    ELSE LET trimmedName == Trim(name.v)
         IN  IF trimmedName = <<>> THEN [threw |-> TRUE, kind |-> "empty"]
             ELSE IF Len(trimmedName) > MaxNameLength THEN [threw |-> TRUE, kind |-> "long"]
             ELSE IF HasInvalidNameChars(trimmedName) THEN [threw |-> TRUE, kind |-> "chars"]
             ELSE [threw |-> FALSE, value |-> JStr(trimmedName)]

\* validateEnvironmentName(name): [threw, value]
validateEnvironmentName(name) ==
    IF ~Truthy(name) \/ ~IsString(name) THEN [threw |-> TRUE, kind |-> "required"]
    ELSE LET trimmedName == Trim(name.v)
         IN  IF trimmedName = <<>> THEN [threw |-> TRUE, kind |-> "empty"]
             ELSE IF Len(trimmedName) > MaxNameLength THEN [threw |-> TRUE, kind |-> "long"]
             ELSE IF HasInvalidNameChars(trimmedName) THEN [threw |-> TRUE, kind |-> "chars"]
             ELSE [threw |-> FALSE, value |-> JStr(trimmedName)]

ValidMethods == { <<"G","E","T">>, <<"P","O","S","T">>, <<"P","U","T">>,
                  <<"P","A","T","C","H">>, <<"D","E","L","E","T","E">>,
                  <<"H","E","A","D">>, <<"O","P","T","I","O","N","S">> }

\* validateHttpMethod(method): [threw, value]; method.toUpperCase() itself
\* throws a TypeError when method is not a string
validateHttpMethod(method) ==
    IF ~IsString(method) THEN [threw |-> TRUE, kind |-> "TypeError"]
    ELSE LET upperMethod == toUpperCase(method.v)
         IN  IF upperMethod \notin ValidMethods THEN [threw |-> TRUE, kind |-> "method"]
             ELSE [threw |-> FALSE, value |-> JStr(upperMethod)]

\* validateTimeout(timeout): [threw, value]
validateTimeout(timeout) ==
    LET num == parseInt(timeout)
    IN  IF num.nan \/ num.n <= 0 THEN [threw |-> TRUE, kind |-> "positive"]
        ELSE IF num.n > MaxTimeout THEN [threw |-> TRUE, kind |-> "exceed"]
        ELSE [threw |-> FALSE, value |-> JNum(num.n)]

\* validateUrl(url): [threw, value]
validateUrl(url) ==
    IF ~Truthy(url) \/ ~IsString(url) THEN [threw |-> TRUE, kind |-> "required"]
    ELSE LET trimmedUrl == Trim(url.v)
         IN  IF trimmedUrl = <<>> THEN [threw |-> TRUE, kind |-> "empty"]
             ELSE IF HasPlaceholders(trimmedUrl)
             THEN (IF ~isValidUrl(JStr(ReplaceBraces(trimmedUrl, 1)))
                   THEN [threw |-> TRUE, kind |-> "format"]
                   ELSE [threw |-> FALSE, value |-> JStr(trimmedUrl)])
             ELSE IF ~isValidUrl(JStr(trimmedUrl)) THEN [threw |-> TRUE, kind |-> "format"]
             ELSE [threw |-> FALSE, value |-> JStr(trimmedUrl)]

\* validateJsonData(data): [threw, value]; text that starts like a JSON
\* document must parse, anything else is returned as it is
validateJsonData(data) ==
    IF ~Truthy(data) \/ ~IsString(data) THEN [threw |-> FALSE, value |-> data]
    ELSE LET trimmed == Trim(data.v)
         IN  IF trimmed # <<>> /\ trimmed[1] \in {"{", "["} /\ ~isValidJson(data)
             THEN [threw |-> TRUE, kind |-> "json"]
             ELSE [threw |-> FALSE, value |-> data]

----------------------------------------------------------------------------
(* core/env.js: getEnv and interpolateRequest *)

LengthKey == <<"l","e","n","g","t","h">>
NameKey   == <<"n","a","m","e">>

\* the own properties hasOwnProperty sees on a value: those of an object, the
\* length and name of a function, none otherwise
OwnProps(x) ==
    CASE x.t = "object"   -> x.v
      [] x.t = "function" -> (LengthKey :> JNum(0)) @@ (NameKey :> JStr(x.v))
      [] OTHER            -> EmptyMap

\* getEnv(name): [threw, error | env]
getEnv(envs, name) ==
    LET envName == IF IsString(name) THEN Trim(name.v) ELSE <<>>
    IN  IF envName = <<>>
        THEN [threw |-> TRUE,
              error |-> [name |-> "ConfigurationError", kind |-> "required"]]
        ELSE LET environmentsRead == getEnvironments(envs)
                 env == GetProp(environmentsRead, envName)
             IN  IF ~Truthy(env)
                 THEN [threw |-> TRUE,
                       error |-> [name |-> "ConfigurationError", kind |-> "unknown",
                                  envName |-> envName,
                                  available |-> DOMAIN environmentsRead]]
                 ELSE [threw |-> FALSE, env |-> env]

\* the step of a removeEnvironment call
C13_RemoveStep ==
    io'.op = "removeEnvironment" =>
        IF io'.name \in DOMAIN saved
        THEN /\ ~io'.threw
             /\ environments' = DelProp(environments, io'.name)
             /\ requests' = requests
        ELSE /\ io'.threw
             /\ io'.error.name = "NotFoundError"
             /\ environments' = environments
             /\ requests' = requests

\* C13: removeEnvironment on a name that is not stored fails with a
\* NotFoundError and leaves the store unchanged; on a stored name it removes
\* exactly that environment and leaves every other environment and all saved
\* requests unchanged.
C13_RemoveExactlyOne == [][C13_RemoveStep]_vars

----------------------------------------------------------------------------
(* SpecEnv: environments saved, removed and looked up with getEnv          *)

DevPadded == <<" ", "d", "e", "v", " ">>
GetNames ==
    { JStr(n) : n \in {DEV, DevPadded, QA, NameA, NameAB, VALUEOF, <<>>, <<" ">>} }
    \cup {JNull, JUndef}

GetEnvCall ==
    \E name \in GetNames :
        /\ io' = [op |-> "getEnv", name |-> name, out |-> getEnv(environments, name)]
        /\ UNCHANGED <<requests, environments, history, clock, tpl, ienv, iout, cmd,
                       latest, saved, files, procs>>

NextEnv == SaveEnvironmentCall \/ RemoveEnvironmentCall \/ GetEnvCall

SpecEnv == InitStore /\ [][NextEnv]_vars

\* C12: getEnv(name) returns the stored variable set exactly when an
\* environment is stored under the trimmed name (saved and not removed since);
\* for any other name it throws a ConfigurationError that lists every stored
\* name; an empty, whitespace-only or non-string name is rejected with a
\* ConfigurationError.
C12_GetEnvStoredOnly ==
    io.op = "getEnv" =>
        IF ~IsString(io.name) \/ Trim(io.name.v) = <<>>
        THEN /\ io.out.threw
             /\ io.out.error.name = "ConfigurationError"
             /\ io.out.error.kind = "required"
        ELSE IF Trim(io.name.v) \in DOMAIN saved
        THEN /\ ~io.out.threw
             /\ io.out.env = saved[Trim(io.name.v)]
        ELSE /\ io.out.threw
             /\ io.out.error.name = "ConfigurationError"
             /\ io.out.error.kind = "unknown"
             /\ io.out.error.available = DOMAIN saved

\* interpolate applied to a field that holds a string, any other value kept
InterpolateIfString(x, env) == IF IsString(x) THEN interpolate(x, env).value ELSE x

\* the headers of a request interpolated: the elements of an array, the
\* values of an object; anything else is kept
InterpolateHeaders(h, env) ==
    IF ~Truthy(h) \/ h.t \notin {"object", "array"} THEN h
    ELSE IF h.t = "array"
    THEN JArr([i \in 1..Len(h.v) |-> InterpolateIfString(h.v[i], env)])
    ELSE JObj([k \in DOMAIN h.v |-> InterpolateIfString(h.v[k], env)])

\* interpolateRequest(request, env): a copy of the request with the url, the
\* header values and body / data interpolated
interpolateRequest(request, env) ==
    IF ~Truthy(request) \/ request.t # "object" THEN request
    ELSE LET own == OwnProps(env)
         IN  JObj([f \in DOMAIN request.v |->
                    CASE f = "url"     -> InterpolateIfString(request.v[f], own)
                      [] f = "headers" -> InterpolateHeaders(request.v[f], own)
                      [] f = "body"    -> InterpolateIfString(request.v[f], own)
                      [] f = "data"    -> InterpolateIfString(request.v[f], own)
                      [] OTHER         -> request.v[f]])

----------------------------------------------------------------------------
(* The header flags of the commands *)

\* a header flag that never replaces a name already present
ParseHeaderKeepFirst(headers, h) ==
    LET colonIndex == IndexFrom(h, ":", 1)
        key == Trim(SubSeq(h, 1, colonIndex - 1))
    IN  IF colonIndex = 0 \/ key \in DOMAIN headers THEN headers
        ELSE PutProp(headers, key, JStr(Trim(SubSeq(h, colonIndex + 1, Len(h)))))

\* one "Key: Value" flag put into the headers as request and run do: no colon
\* means a warning and no header
ParseHeader(headers, h) ==
    LET colonIndex == IndexFrom(h, ":", 1)
    IN  IF colonIndex = 0 THEN headers
        ELSE PutProp(headers, Trim(SubSeq(h, 1, colonIndex - 1)),
                     JStr(Trim(SubSeq(h, colonIndex + 1, Len(h)))))

RECURSIVE ParseHeaders(_, _)
\* list.forEach(h => ...) of request and run
ParseHeaders(headers, list) ==
    IF list = <<>> THEN headers
    ELSE ParseHeaders(ParseHeader(headers, ToStringChars(list[1])), Tail(list))

RECURSIVE HeaderWarnings(_)
\* the console.log of the warning for each flag of the list without a colon
HeaderWarnings(list) ==
    IF list = <<>> THEN <<>>
    ELSE (IF IndexFrom(ToStringChars(list[1]), ":", 1) = 0 THEN <<"warning">> ELSE <<>>)
         \o HeaderWarnings(Tail(list))

\* the warnings the forEach over a header list prints, none when the list is
\* missing or empty
WarningsOf(list) == IF Truthy(list) /\ Len(list.v) > 0 THEN HeaderWarnings(list.v) ELSE <<>>

\* one flag put into the headers as gql does: h.split(':'), the first part
\* is the key, the rest joined again is the value
GqlParseHeader(headers, h) ==
    LET colonIndex == IndexFrom(h, ":", 1)
        key   == IF colonIndex = 0 THEN h ELSE SubSeq(h, 1, colonIndex - 1)
        value == IF colonIndex = 0 THEN <<>> ELSE SubSeq(h, colonIndex + 1, Len(h))
    IN  PutProp(headers, Trim(key), JStr(Trim(value)))

RECURSIVE GqlParseHeaders(_, _)
\* options.header.forEach(h => ...) of gql
GqlParseHeaders(headers, list) ==
    IF list = <<>> THEN headers
    ELSE GqlParseHeaders(GqlParseHeader(headers, ToStringChars(list[1])), Tail(list))

----------------------------------------------------------------------------
(* commands/run.js, commands/request.js, commands/gql.js and index.js *)

\* the exit code of the unhandledRejection handler of index.js
UnhandledRejectionExit == 2

\* the invocation record: what was asked, what was printed, the calls made
\* and the exit code (0 until the process exits with another one)
Invocation(command, name, options) ==
    [pc |-> "done", command |-> command, name |-> name, options |-> options,
     exit |-> 0, out |-> <<>>, sendCalls |-> 0, recordCalls |-> 0,
     config |-> JNull, axiosConfig |-> JNull, wire |-> [kind |-> "none"]]

\* process.exit(code) after the lines in out were printed
Exited(inv, out, code) == [inv EXCEPT !.pc = "done", !.out = inv.out \o out, !.exit = code]

\* the common tail of the three actions up to the await: sendRequest is
\* called inside try; an error thrown before the transport is used goes to
\* the catch (printError, exit 2), otherwise the action waits for the transport
Dispatch(inv, requestConfig) ==
    LET p == sendRequestPrepare(requestConfig)
    IN  IF p.threw
        THEN Exited([inv EXCEPT !.config = requestConfig, !.sendCalls = 1],
                    <<"printError">>, 2)
        ELSE [inv EXCEPT !.pc = "awaiting", !.sendCalls = 1,
                         !.config = JObj(Assign(requestConfig.v,
                                         ("headers" :> JObj(p.axiosConfig.headers)))),
                         !.axiosConfig = JObj(p.axiosConfig)]

\* the run action's entry without the name of the saved request
RunHistoryEntryNoName(requestConfig, response, options, name) ==
    ("method" :> Field(requestConfig.v, "method"))
    @@ ("url" :> Field(requestConfig.v, "url"))
    @@ ("status" :> response.status)
    @@ ("durationMs" :> response.durationMs)
    @@ ("env" :> IF Truthy(Field(options, "env")) THEN Field(options, "env") ELSE JNull)

\* the entry the run action records
RunHistoryEntry(requestConfig, response, options, name) ==
    ("method" :> Field(requestConfig.v, "method"))
    @@ ("url" :> Field(requestConfig.v, "url"))
    @@ ("status" :> response.status)
    @@ ("durationMs" :> response.durationMs)
    @@ ("env" :> IF Truthy(Field(options, "env")) THEN Field(options, "env") ELSE JNull)
    @@ ("savedRequestName" :> name)

\* the entry the request and gql actions record
AdHocHistoryEntry(method, requestConfig, response, options) ==
    ("method" :> method)
    @@ ("url" :> Field(requestConfig.v, "url"))
    @@ ("status" :> response.status)
    @@ ("durationMs" :> response.durationMs)
    @@ ("env" :> IF Truthy(Field(options, "env")) THEN Field(options, "env") ELSE JNull)

\* run <name> up to the await of sendRequest
runAction(reqs, envs, name, options) ==
    LET inv == Invocation("run", name, options)
        savedRequest == getRequestByName(reqs, name)
    IN  IF ~Truthy(savedRequest) THEN Exited(inv, <<"error", "hint">>, 1)
        ELSE
          LET savedHeaders == Field(savedRequest.v, "headers")
              h1 == IF Truthy(savedHeaders) /\ Len(savedHeaders.v) > 0
                    THEN ParseHeaders(EmptyMap, savedHeaders.v) ELSE EmptyMap
              given == Field(options, "header")
              h2 == IF Truthy(given) /\ Len(given.v) > 0
                    THEN ParseHeaders(h1, given.v) ELSE h1
              data == IF Truthy(Field(options, "data")) THEN Field(options, "data")
                      ELSE Field(savedRequest.v, "data")
              requestConfig == JObj(("method" :> Field(savedRequest.v, "method"))
                                    @@ ("url" :> Field(savedRequest.v, "url"))
                                    @@ ("headers" :> JObj(h2))
                                    @@ ("data" :> data))
              warned == [inv EXCEPT !.out = WarningsOf(savedHeaders) \o WarningsOf(given)]
          IN  IF Truthy(Field(options, "env"))
              THEN LET g == getEnv(envs, Field(options, "env"))
                   IN  IF g.threw THEN Exited(warned, <<"error", "hint">>, 1)
                       ELSE Dispatch(warned, interpolateRequest(requestConfig, g.env))
              ELSE Dispatch(warned, requestConfig)

\* request up to the await of sendRequest
requestAction(envs, options) ==
    LET inv == Invocation("request", JUndef, options)
    IN  IF ~Truthy(Field(options, "url")) THEN Exited(inv, <<"error", "hint">>, 1)
        ELSE
          LET vUrl     == validateUrl(Field(options, "url"))
              vMethod  == validateHttpMethod(Field(options, "method"))
              vTimeout == validateTimeout(Field(options, "timeout"))
              vData    == IF Truthy(Field(options, "data"))
                          THEN validateJsonData(Field(options, "data"))
                          ELSE [threw |-> FALSE]
              vEnv     == IF Truthy(Field(options, "env"))
                          THEN validateEnvironmentName(Field(options, "env"))
                          ELSE [threw |-> FALSE]
          IN  IF vUrl.threw \/ vMethod.threw \/ vTimeout.threw \/ vData.threw \/ vEnv.threw
              THEN Exited(inv, <<"error">>, 1)
              ELSE
                LET given == Field(options, "header")
                    headers == IF Truthy(given) /\ Len(given.v) > 0
                               THEN ParseHeaders(EmptyMap, given.v) ELSE EmptyMap
                    requestConfig == JObj(("method" :> vMethod.value)
                                          @@ ("url" :> Field(options, "url"))
                                          @@ ("headers" :> JObj(headers))
                                          @@ ("data" :> Field(options, "data"))
                                          @@ ("timeout" :> vTimeout.value))
                    warned == [inv EXCEPT !.out = WarningsOf(given)]
                IN  IF Truthy(Field(options, "env"))
                    THEN LET g == getEnv(envs, Field(options, "env"))
                         IN  IF g.threw THEN Exited(warned, <<"error", "hint">>, 1)
                             ELSE Dispatch(warned, interpolateRequest(requestConfig, g.env))
                    ELSE Dispatch(warned, requestConfig)

\* JSON.stringify({query: query, variables: variables})
GqlBody(query, variablesText) ==
    <<"{">> \o JsonQuote(<<"q","u","e","r","y">>) \o <<":">> \o JsonQuote(query)
    \o <<",">> \o JsonQuote(<<"v","a","r","i","a","b","l","e","s">>) \o <<":">>
    \o variablesText \o <<"}">>

\* gql up to the await of sendRequest; file is what readFileSync does with
\* options.file: [ok, content]
gqlAction(envs, options, file) ==
    LET inv == Invocation("gql", JUndef, options)
    IN  IF ~Truthy(Field(options, "query")) /\ ~Truthy(Field(options, "file"))
        THEN Exited(inv, <<"error">>, 1)
        ELSE IF Truthy(Field(options, "file")) /\ ~file.ok
        THEN Exited(inv, <<"error">>, 1)
        ELSE IF Truthy(Field(options, "variables")) /\ ~JsonParses(Field(options, "variables").v)
        THEN Exited(inv, <<"error", "hint">>, 1)
        ELSE
          LET query == IF Truthy(Field(options, "file")) THEN file.content
                       ELSE Field(options, "query").v
              variablesText == IF Truthy(Field(options, "variables"))
                               THEN JsonCompact(Field(options, "variables").v, 1, FALSE)
                               ELSE <<"{", "}">>
              headers == GqlParseHeaders((ContentType :> ApplicationJson),
                                         Field(options, "header").v)
              requestConfig == JObj(("method" :> MPost)
                                    @@ ("url" :> Field(options, "endpoint"))
                                    @@ ("headers" :> JObj(headers))
                                    @@ ("data" :> JStr(GqlBody(query, variablesText))))
          IN  IF Truthy(Field(options, "env"))
              THEN LET g == getEnv(envs, Field(options, "env"))
                   IN  IF g.threw
                       THEN \* not caught by the action: the promise is rejected
                            Exited(inv, <<"unhandledRejection">>, UnhandledRejectionExit)
                       ELSE Dispatch(inv, interpolateRequest(requestConfig, g.env))
              ELSE Dispatch(inv, requestConfig)

----------------------------------------------------------------------------
(* SpecCmd: invocations of run, request and gql against a store that holds *)
(* one saved request, with the transport answering or failing             *)

\* milliseconds the clock may advance: every dispatch takes at least one
MaxCmdClock == 1

R3 == JStr(<<"r","3">>)

UrlTemplate == JStr(<<"h","t","t","p",":","/","/","{","{","A","}","}","/","u">>)
UrlResolved == JStr(<<"h","t","t","p",":","/","/","1","/","u">>)
UrlNoScheme == JStr(<<"{","{","A","}","}","/","u">>)

HeaderTemplate == JStr(<<"K",":"," ","{","{","B","}","}">>)
HeaderGiven    == JStr(<<"K",":","v">>)
HeaderNoColon  == JStr(<<"K">>)

\* the request stored by  save r1 --method GET --url http://{{A}}/u -H "K: {{B}}"
SavedTemplate ==
    ("name" :> R1) @@ ("method" :> MGet) @@ ("url" :> UrlTemplate)
    @@ ("headers" :> JArr(<<HeaderTemplate>>))

\* an entry left by an earlier request invocation
PriorEntry ==
    ("method" :> MGet) @@ ("url" :> UrlResolved) @@ ("status" :> JNum(200))
    @@ ("durationMs" :> JNum(0)) @@ ("env" :> JNull)
    @@ ("timestamp" :> JStr(toISOString(0)))

\* the values of --env: none, dev, and two names that are never stored
EnvFlags == { JUndef, JStr(DEV), JStr(QA), JStr(VALUEOF) }

NoHeaders == JArr(<<>>)

\* run <name> [--env e] [-H h] [-d data]
RunInputs ==
    { [name |-> R1, options |-> ("header" :> NoHeaders) @@ ("env" :> e)] : e \in EnvFlags }
    \cup
    { [name |-> R1, options |-> ("header" :> JArr(<<HeaderGiven, HeaderNoColon>>))
                                @@ ("env" :> JStr(DEV)) @@ ("data" :> Data1)],
      [name |-> R3, options |-> ("header" :> NoHeaders) @@ ("env" :> JStr(DEV))] }

Timeout30000 == JStr(<<"3","0","0","0","0">>)
TimeoutZero  == JStr(<<"0">>)
MethodLower  == JStr(<<"g","e","t">>)
MethodBad    == JStr(<<"G","O">>)
DataBadJson  == JStr(<<"{","x">>)

RequestBase ==
    ("method" :> MethodLower) @@ ("url" :> UrlTemplate) @@ ("header" :> NoHeaders)
    @@ ("timeout" :> Timeout30000)

\* request --url u [-X m] [-H h] [-d data] [--env e] [--timeout ms]
RequestInputs2 ==
    { RequestBase @@ ("env" :> e) : e \in EnvFlags }
    \cup
    { ("header" :> NoHeaders) @@ ("method" :> MGet) @@ ("timeout" :> Timeout30000),
      ("url" :> UrlNoScheme) @@ RequestBase,
      ("method" :> MethodBad) @@ RequestBase,
      ("timeout" :> TimeoutZero) @@ RequestBase,
      ("data" :> DataBadJson) @@ RequestBase,
      ("header" :> JArr(<<HeaderTemplate>>)) @@ ("data" :> Data1) @@ ("env" :> JStr(DEV))
          @@ RequestBase }

Endpoint  == JStr(<<"h","t","t","p",":","/","/","g","/","{","{","A","}","}">>)
QueryText == JStr(<<"{","a","}">>)
FilePath  == JStr(<<"q",".","g","q","l">>)
VarsText  == JStr(<<"{","\"","k","\"",":"," ","1","}">>)

GqlBase == ("endpoint" :> Endpoint) @@ ("header" :> NoHeaders)

\* gql --endpoint u [--query q] [--file f] [--variables json] [--env e] [-H h]
GqlInputs ==
    { GqlBase @@ ("query" :> QueryText) @@ ("env" :> e) : e \in EnvFlags }
    \cup
    { GqlBase,
      GqlBase @@ ("file" :> FilePath),
      GqlBase @@ ("query" :> QueryText) @@ ("variables" :> DataBadJson),
      ("header" :> JArr(<<HeaderGiven>>)) @@ GqlBase @@ ("query" :> QueryText)
          @@ ("variables" :> VarsText) @@ ("env" :> JStr(DEV)) }

\* what readFileSync does with options.file
FileReads == { [ok |-> FALSE], [ok |-> TRUE, content |-> QueryText.v] }

\* the statuses the transport delivers to a command
CmdStatuses == {200, 404, 500}

\* a GraphQL answer that reports errors, as a list and not as a list
GqlErrorList == JObj(("errors" :> JArr(<<JObj(("message" :> TextOk))>>)))
GqlErrorText == JObj(("errors" :> TextOk))

CmdWires(command) ==
    { WireResponse(s) : s \in CmdStatuses } \cup WireFailures
    \cup (IF command = "gql"
          THEN { [WireResponse(200) EXCEPT !.data = d] : d \in {GqlErrorList, GqlErrorText} }
          ELSE {})

InitCmd ==
    /\ requests = <<SavedTemplate>>
    /\ environments \in { EmptyMap, (DEV :> JObj(VarsAB)) }
    /\ history \in { <<>>, <<PriorEntry>> }
    /\ clock = 0
    /\ io = NoIo
    /\ tpl = NoTpl
    /\ ienv = EmptyMap
    /\ iout = NoIout
    /\ cmd = NoCmd
    /\ latest = NoLatest
    /\ saved = environments
    /\ files = AllFiles
    /\ procs = NoProcs

\* a new process starts only once the one before has ended; a dispatch needs
\* time left on the clock
Started(inv) ==
    /\ cmd.pc # "awaiting"
    /\ inv.pc = "awaiting" => clock < MaxCmdClock
    /\ cmd' = inv
    /\ UNCHANGED <<requests, environments, history, clock, io, tpl, ienv, iout, latest, saved, files, procs>>

RunCommand ==
    \E in \in RunInputs : Started(runAction(requests, environments, in.name, in.options))

RequestCommand ==
    \E options \in RequestInputs2 : Started(requestAction(environments, options))

GqlCommand ==
    \E options \in GqlInputs, file \in FileReads :
        /\ Truthy(Field(options, "file")) \/ file = [ok |-> FALSE]
        /\ Started(gqlAction(environments, options, file))

\* the catch of the three actions: printError, then process.exit(2)
Failed(wire, elapsed) ==
    /\ cmd' = Exited([cmd EXCEPT !.wire = wire], <<"printError">>, 2)
    /\ clock' = clock + elapsed
    /\ UNCHANGED <<requests, environments, history, io, tpl, ienv, iout, latest, saved, files, procs>>

\* printSuccess, then recordHistory(entry), then the action returns; with the
\* storage directory gone getHistoryDb() throws inside recordHistory, and the
\* error goes to the catch of the action as one of sendRequest does
Succeeded(wire, elapsed, out, entry) ==
    LET r == IF files.dir THEN recordHistory(history, JObj(entry), clock + elapsed)
             ELSE [threw |-> TRUE, history |-> history]
    IN  /\ clock' = clock + elapsed
        /\ history' = r.history
        /\ cmd' = IF r.threw
                  THEN Exited([cmd EXCEPT !.wire = wire, !.recordCalls = 1],
                              out \o <<"printSuccess", "printError">>, 2)
                  ELSE [cmd EXCEPT !.pc = "done", !.wire = wire, !.recordCalls = 1,
                                   !.out = cmd.out \o out \o <<"printSuccess">>]
        /\ UNCHANGED <<requests, environments, io, tpl, ienv, iout, latest, saved, files, procs>>

\* run, from the await of sendRequest on
RunResume ==
    /\ cmd.pc = "awaiting" /\ cmd.command = "run"
    /\ \E wire \in CmdWires("run"), elapsed \in 1..(MaxCmdClock - clock) :
          LET f == sendRequestFinish(cmd.axiosConfig.v, wire, elapsed)
          IN  IF f.threw THEN Failed(wire, elapsed)
              ELSE Succeeded(wire, elapsed, <<>>,
                             RunHistoryEntry(cmd.config, f.response, cmd.options, cmd.name))

\* request, from the await of sendRequest on
RequestResume ==
    /\ cmd.pc = "awaiting" /\ cmd.command = "request"
    /\ \E wire \in CmdWires("request"), elapsed \in 1..(MaxCmdClock - clock) :
          LET f == sendRequestFinish(cmd.axiosConfig.v, wire, elapsed)
          IN  IF f.threw THEN Failed(wire, elapsed)
              ELSE Succeeded(wire, elapsed, <<>>,
                             AdHocHistoryEntry(Field(cmd.config.v, "method"), cmd.config,
                                               f.response, cmd.options))

\* gql, from the await of sendRequest on
GqlResume ==
    /\ cmd.pc = "awaiting" /\ cmd.command = "gql"
    /\ \E wire \in CmdWires("gql"), elapsed \in 1..(MaxCmdClock - clock) :
          LET f == sendRequestFinish(cmd.axiosConfig.v, wire, elapsed)
              errors == IF ~f.threw /\ Truthy(f.response.data) /\ f.response.data.t = "object"
                        THEN Field(f.response.data.v, "errors") ELSE JUndef
          IN  IF f.threw THEN Failed(wire, elapsed)
              ELSE IF Truthy(errors) /\ errors.t # "array"
              THEN \* errors.forEach is not a function: caught like a failed dispatch
                   Failed(wire, elapsed)
              ELSE Succeeded(wire, elapsed,
                             IF Truthy(errors) THEN <<"gqlErrors">> ELSE <<>>,
                             AdHocHistoryEntry(MPost, cmd.config, f.response, cmd.options))

NextCmd ==
    \/ RunCommand
    \/ RequestCommand
    \/ GqlCommand
    \/ RunResume
    \/ RequestResume
    \/ GqlResume

SpecCmd == InitCmd /\ [][NextCmd]_vars

\* the URL the run of r1 is expected to resolve to: the saved URL with the
\* variables of the named environment filled in when that environment is stored
C9_ResolvedUrl ==
    IF Field(cmd.options, "env") = JStr(DEV) /\ DEV \in DOMAIN environments
    THEN UrlResolved ELSE UrlTemplate

\* the step in which the run action gets a response back from the transport
C9_RunCycleStep ==
    /\ (cmd.pc = "awaiting" /\ cmd.command = "run" /\ cmd'.wire.kind = "response") =>
          /\ cmd.sendCalls = 1
          /\ cmd'.recordCalls = 1
          /\ history' = Append(history,
                ("method" :> MGet)
                @@ ("url" :> C9_ResolvedUrl)
                @@ ("status" :> JNum(cmd'.wire.status))
                @@ ("durationMs" :> JNum(clock' - clock))
                @@ ("env" :> IF Field(cmd.options, "env") = JUndef
                             THEN JNull ELSE Field(cmd.options, "env"))
                @@ ("savedRequestName" :> cmd.name)
                @@ ("timestamp" :> JStr(toISOString(clock'))))
    /\ history' # history => cmd.pc = "awaiting"

\* C9: when run has dispatched the saved request and the transport returns a
\* response with any status, exactly one entry is appended to the ledger,
\* carrying the method, the resolved URL, the status, durationMs, the env name
\* (null when none) and savedRequestName; the ledger changes only in that step,
\* which comes after the dispatch.
C9_SuccessfulRunCycle == [][C9_RunCycleStep]_vars

\* run r1 --env dev got a 404 back: the ledger grew from one entry to two and
\* the new entry carries the resolved URL, 404, dev and r1
C9_Witness ==
    /\ cmd.pc = "done"
    /\ cmd.command = "run"
    /\ cmd.wire.kind = "response"
    /\ cmd.wire.status = 404
    /\ Len(history) = 2
    /\ history[1] = PriorEntry
    /\ history[2].url = UrlResolved
    /\ history[2].status = JNum(404)
    /\ history[2].env = JStr(DEV)
    /\ history[2].savedRequestName = R1

\* C10: in request, run and gql, when --env names an environment that is not
\* stored the command reports the error and exits with code 1, and neither
\* sendRequest nor recordHistory is called.
C10_UnknownEnvStops ==
    ( /\ cmd.pc # "idle"
      /\ Truthy(Field(cmd.options, "env"))
      /\ Field(cmd.options, "env").v \notin DOMAIN environments ) =>
        /\ cmd.pc = "done"
        /\ cmd.exit = 1
        /\ cmd.out # <<>>
        /\ cmd.out[1] = "error"
        /\ cmd.sendCalls = 0
        /\ cmd.recordCalls = 0

\* the step in which the awaited sendRequest of a command fails
C11_FailureStep ==
    (cmd.pc = "awaiting" /\ cmd'.pc = "done" /\ cmd'.wire.kind # "response") =>
        /\ history' = history
        /\ cmd'.recordCalls = 0
        /\ cmd'.out # <<>>
        /\ cmd'.out[Len(cmd'.out)] = "printError"
        /\ cmd'.exit = 2

\* C11: in request, run and gql, when sendRequest fails (timeout, no response
\* or any other transport exception) no history entry is appended, the error
\* is printed and the command exits with code 2.
C11_DispatchFailureLeavesNoHistory == [][C11_FailureStep]_vars

\* run r1 timed out: printError, exit code 2, the ledger still holds only the
\* entry it held before
C11_Witness ==
    /\ cmd.pc = "done"
    /\ cmd.command = "run"
    /\ cmd.wire.kind = "timeout"
    /\ cmd.sendCalls = 1
    /\ cmd.out = <<"printError">>
    /\ cmd.exit = 2
    /\ history = <<PriorEntry>>

----------------------------------------------------------------------------
(* interpolateRequest over objects with identity: the request, its headers *)
(* collection and an object body are cells of a heap, a field holds a      *)
(* primitive or a reference to a cell                                      *)

Ref(n) == [t |-> "ref", v |-> n]

\* headers = result.headers: the collection of the input itself
CopyHeadersAliased(heap, ref) == [heap |-> heap, ref |-> ref]

\* headers = [...result.headers] or {...result.headers}: a new cell
CopyHeaders(heap, ref) ==
    [heap |-> Append(heap, heap[ref.v]), ref |-> Ref(Len(heap) + 1)]

\* result[f] = interpolate(result[f], env) when result[f] is a string
InterpolateField(heap, r, f, own) ==
    IF f \in DOMAIN heap[r].v /\ IsString(heap[r].v[f])
    THEN [heap EXCEPT ![r] = JObj([@.v EXCEPT ![f] = InterpolateIfString(@, own)])]
    ELSE heap

\* the two loops over the copied headers, writing into cell c, and the
\* assignment result.headers = headers
WriteHeaders(copied, r, own) ==
    [copied.heap EXCEPT
        ![copied.ref.v] = InterpolateHeaders(@, own),
        ![r] = JObj([@.v EXCEPT !["headers"] = copied.ref])]

\* if (result.headers && typeof result.headers === 'object') { ... }
InterpolateHeadersField(heap, r, own) ==
    IF "headers" \in DOMAIN heap[r].v /\ heap[r].v["headers"].t = "ref"
    THEN WriteHeaders(CopyHeaders(heap, heap[r].v["headers"]), r, own)
    ELSE heap

\* the body of interpolateRequest once result = {...request} is cell r
InterpolateResult(heap, r, own) ==
    InterpolateField(
        InterpolateField(
            InterpolateHeadersField(InterpolateField(heap, r, "url", own), r, own),
            r, "body", own),
        r, "data", own)

\* interpolateRequest(request, env) on a heap: [heap, result]
interpolateRequestOn(heap, request, env) ==
    IF request.t # "ref" THEN [heap |-> heap, result |-> request]
    ELSE [heap   |-> InterpolateResult(Append(heap, heap[request.v]), Len(heap) + 1,
                                       OwnProps(env)),
          result |-> Ref(Len(heap) + 1)]

RECURSIVE Deref(_, _)
\* the value a heap value stands for, references followed
Deref(heap, x) ==
    IF x.t # "ref" THEN x
    ELSE IF heap[x.v].t = "array"
    THEN JArr([i \in 1..Len(heap[x.v].v) |-> Deref(heap, heap[x.v].v[i])])
    ELSE JObj([k \in DOMAIN heap[x.v].v |-> Deref(heap, heap[x.v].v[k])])

----------------------------------------------------------------------------
(* SpecReq: interpolateRequest called on one request                       *)

TemplateA == JStr(<<"{","{","A","}","}">>)
TemplateB == JStr(<<"{","{","B","}","}">>)
HeaderNameTemplate == JStr(<<"{","{","A","}","}",":"," ","v">>)

\* headers given as an object or as an array of "Key: Value" strings
HeaderCollections ==
    { JObj(EmptyMap),
      JObj(KeyX :> TemplateA),
      JObj(TemplateA.v :> JStr(<<"v">>)),
      JObj((KeyX :> JNum(7)) @@ (KeyY :> TemplateB)),
      JArr(<<>>),
      JArr(<<HeaderTemplate>>),
      JArr(<<HeaderNameTemplate>>),
      JArr(<<JNum(7), HeaderTemplate>>) }

\* headers that are no collection
HeaderPrimitives == { JNull, TemplateA }

UrlInputs  == { UrlTemplate, UrlPlain, JNum(5) }
BodyInputs == { TemplateA, JNull }
DataInputs == { TemplateB, JNum(1) }
DataObject == JObj(KeyX :> TemplateA)
ReqEnvs    == { JObj(VarsAB), JObj(VarsC), JObj(EmptyMap) }

\* the fields of a request besides headers and an object body: each of url,
\* body and data is absent or holds one of its inputs
PlainFields ==
    { ("method" :> TemplateA) @@ u @@ b @@ d :
        u \in { <<>> } \cup { ("url" :> x) : x \in UrlInputs },
        b \in { <<>> } \cup { ("body" :> x) : x \in BodyInputs },
        d \in { <<>> } \cup { ("data" :> x) : x \in DataInputs } }

\* the heaps the caller holds: the request in cell 1, its headers collection,
\* when it has one, in cell 2, an object passed as data in the last cell
RequestHeaps ==
    { <<JObj(p)>> : p \in PlainFields }
    \cup { <<JObj(p @@ ("headers" :> h))>> : p \in PlainFields, h \in HeaderPrimitives }
    \cup { <<JObj(p @@ ("headers" :> Ref(2))), h>> : p \in PlainFields, h \in HeaderCollections }
    \cup { <<JObj(("data" :> Ref(3)) @@ p @@ ("headers" :> Ref(2))), h, DataObject>> :
             p \in PlainFields, h \in HeaderCollections }

InitReq ==
    /\ requests = <<>>
    /\ environments = EmptyMap
    /\ history = <<>>
    /\ clock = 0
    /\ io \in { [op |-> "request", heap |-> h, request |-> Ref(1), env |-> e] :
                  h \in RequestHeaps, e \in ReqEnvs }
             \cup { [op |-> "request", heap |-> <<>>, request |-> JNull, env |-> e] :
                      e \in ReqEnvs }
    /\ tpl = NoTpl
    /\ ienv = EmptyMap
    /\ iout = NoIout
    /\ cmd = NoCmd
    /\ latest = NoLatest
    /\ saved = EmptyMap
    /\ files = AllFiles
    /\ procs = NoProcs

InterpolateRequestCall ==
    /\ io.op = "request"
    /\ io' = [op |-> "interpolateRequest", heap |-> io.heap, request |-> io.request,
              env |-> io.env, out |-> interpolateRequestOn(io.heap, io.request, io.env)]
    /\ UNCHANGED <<requests, environments, history, clock, tpl, ienv, iout, cmd,
                   latest, saved, files, procs>>

NextReq == InterpolateRequestCall

SpecReq == InitReq /\ [][NextReq]_vars

\* the result read off the heap is the result computed on values
HeapAgreesWithValues ==
    io.op = "interpolateRequest" =>
        Deref(io.out.heap, io.out.result)
            = interpolateRequest(Deref(io.heap, io.request), io.env)

\* a field that is absent or holds no string is in the result what it was
PassedThrough(before, after, f) ==
    IF f \in DOMAIN before.v
    THEN f \in DOMAIN after.v /\ (~IsString(before.v[f]) => after.v[f] = before.v[f])
    ELSE f \notin DOMAIN after.v

\* C14: interpolateRequest never mutates its input: the request object, its
\* headers collection (object or array, every element included) and an object
\* passed as body / data are after the call what they were before; the result
\* is a new object, a field absent from the request is absent from the result
\* and a value that is no string is passed through as it is.
C14_InputNotMutated ==
    io.op = "interpolateRequest" =>
        /\ Len(io.out.heap) >= Len(io.heap)
        /\ \A c \in 1..Len(io.heap) : io.out.heap[c] = io.heap[c]
        /\ io.request.t # "ref" => io.out.result = io.request
        /\ io.request.t = "ref" =>
             /\ io.out.result.t = "ref"
             /\ io.out.result.v > Len(io.heap)
             /\ \A f \in {"url", "body", "data"} :
                    PassedThrough(io.heap[io.request.v], io.out.heap[io.out.result.v], f)
             /\ LET before == io.heap[io.request.v].v
                    after  == io.out.heap[io.out.result.v].v
                IN  IF "headers" \notin DOMAIN before THEN "headers" \notin DOMAIN after
                    ELSE /\ "headers" \in DOMAIN after
                         /\ before["headers"].t # "ref" => after["headers"] = before["headers"]
                         /\ before["headers"].t = "ref" =>
                              /\ after["headers"].t = "ref"
                              /\ after["headers"].v > Len(io.heap)
                              /\ LET hb == io.heap[before["headers"].v].v
                                     ha == io.out.heap[after["headers"].v].v
                                 IN  /\ DOMAIN ha = DOMAIN hb
                                     /\ \A k \in DOMAIN hb :
                                            ~IsString(hb[k]) => ha[k] = hb[k]

\* headers [7, "K: {{B}}"] and an object as data, B = 2: the result holds
\* [7, "K: 2"] in a new array, the array of the caller still holds the template
C14_Witness ==
    /\ io.op = "interpolateRequest"
    /\ io.env = JObj(VarsAB)
    /\ Len(io.heap) = 3
    /\ io.heap[2] = JArr(<<JNum(7), HeaderTemplate>>)
    /\ io.out.heap[2] = JArr(<<JNum(7), HeaderTemplate>>)
    /\ io.out.heap[io.out.heap[io.out.result.v].v["headers"].v]
         = JArr(<<JNum(7), JStr(<<"K",":"," ","2">>)>>)
    /\ io.out.heap[io.out.result.v].v["data"] = Ref(3)
    /\ "body" \notin DOMAIN io.out.heap[io.out.result.v].v

\* the header name of a "Key: Value" string: what stands before the first colon
HeaderNameOf(x) ==
    IF ~IsString(x) THEN <<>>
    ELSE IF IndexFrom(x.v, ":", 1) = 0 THEN x.v
    ELSE SubSeq(x.v, 1, IndexFrom(x.v, ":", 1) - 1)

\* C15: interpolateRequest substitutes only in the url, the header values and
\* body / data: every other field is kept, and a placeholder in a header name
\* is left untouched, for headers given as an object and for headers given as
\* an array of "Key: Value" strings.
C15_HeaderNamesUntouched ==
    (io.op = "interpolateRequest" /\ io.request.t = "ref") =>
        LET before == io.heap[io.request.v].v
            after  == io.out.heap[io.out.result.v].v
        IN  /\ \A f \in DOMAIN before \ {"url", "headers", "body", "data"} :
                   f \in DOMAIN after /\ after[f] = before[f]
            /\ ("headers" \in DOMAIN before /\ before["headers"].t = "ref") =>
                   LET hb == io.heap[before["headers"].v]
                       ha == io.out.heap[after["headers"].v]
                   IN  /\ DOMAIN ha.v = DOMAIN hb.v
                       /\ hb.t = "array" =>
                              \A i \in DOMAIN hb.v :
                                  HeaderNameOf(ha.v[i]) = HeaderNameOf(hb.v[i])

----------------------------------------------------------------------------
(* sendRequest: what is dispatched *)

\* C17: sendRequest adds Content-Type: application/json exactly when a body is
\* present and the headers hold no content-type header under any letter
\* casing; with a content-type header in any casing, or without a body, the
\* headers are dispatched unchanged, with no second content-type entry.
C17_ContentTypeDefaulting ==
    (io.op = "sendRequest" /\ io.out.dispatched) =>
        LET given == IF Truthy(Field(io.config.v, "headers"))
                     THEN Field(io.config.v, "headers").v ELSE EmptyMap
            sent  == io.out.axiosConfig.headers
        IN  IF /\ Truthy(Field(io.config.v, "data"))
               /\ \A k \in DOMAIN given : toLowerCase(k) # ContentTypeLower
            THEN sent = PutProp(given, ContentType, ApplicationJson)
            ELSE sent = given

\* a timeout that is a positive integer
IsPositiveInteger(x) == x.t = "number" /\ x.v > 0

\* C18: sendRequest dispatches with a timeout of 30000 ms when none is given
\* and rejects the call before any transport call when the timeout given is
\* not a positive integer (zero, negative, not an integer); a missing config,
\* method or url is rejected with a ValidationError before dispatch.
C18_TimeoutValidated ==
    io.op = "sendRequest" =>
        IF \/ ~Truthy(io.config)
           \/ ~Truthy(Field(io.config.v, "method"))
           \/ ~Truthy(Field(io.config.v, "url"))
        THEN /\ ~io.out.dispatched
             /\ io.out.threw
             /\ io.out.error.name = "ValidationError"
        ELSE IF "timeout" \notin DOMAIN io.config.v
        THEN /\ io.out.dispatched
             /\ io.out.axiosConfig.timeout = JNum(DefaultTimeout)
        ELSE ~IsPositiveInteger(io.config.v["timeout"]) =>
                 /\ ~io.out.dispatched
                 /\ io.out.threw

----------------------------------------------------------------------------
(* core/storage.js: getDb and initStorage over the files of the store *)

\* what the FileSync adapter reads when the file does not exist: {}
EmptyDoc == [k \in {} |-> <<>>]

\* the content of data.json and of history.json
DataDoc(reqs, envs) == ("requests" :> reqs) @@ ("environments" :> envs)
HistoryDoc(hist)    == ("history" :> hist)

DataDefaults    == DataDoc(<<>>, EmptyMap)
HistoryDefaults == HistoryDoc(<<>>)

\* db.setState(defaultData): the defaults put in place of the document
DefaultsOverwrite(doc, defaultData) == defaultData

\* db.defaults(defaultData): a key is filled in only where the document has none
Defaults(doc, defaultData) ==
    [k \in DOMAIN doc \cup DOMAIN defaultData |->
        IF k \in DOMAIN doc THEN doc[k] ELSE defaultData[k]]

\* getDb(filePath, defaultData): the document written back
getDb(exists, doc, defaultData) ==
    Defaults(IF exists THEN doc ELSE EmptyDoc, defaultData)

\* initStorage(): [files, dataDb, historyDb]
initStorage(f, reqs, envs, hist) ==
    [files     |-> [dir |-> TRUE, data |-> TRUE, history |-> TRUE],
     dataDb    |-> getDb(f.data, DataDoc(reqs, envs), DataDefaults),
     historyDb |-> getDb(f.history, HistoryDoc(hist), HistoryDefaults)]

----------------------------------------------------------------------------
(* SpecInit: initStorage called at any point between saves, removals and   *)
(* recorded entries, on a store that exists, exists in part or is missing  *)

\* the directory and the files that can be found on disk
FileStates ==
    { f \in [dir : BOOLEAN, data : BOOLEAN, history : BOOLEAN] :
        (f.data \/ f.history) => f.dir }

InitInit ==
    /\ files \in FileStates
    /\ procs = NoProcs
    /\ requests = <<>>
    /\ environments = EmptyMap
    /\ history = <<>>
    /\ clock = 0
    /\ io = NoIo
    /\ tpl = NoTpl
    /\ ienv = EmptyMap
    /\ iout = NoIout
    /\ cmd = NoCmd
    /\ latest = NoLatest
    /\ saved = EmptyMap

InitStorageCall ==
    LET r == initStorage(files, requests, environments, history)
    IN  /\ files' = r.files
        /\ requests' = r.dataDb["requests"]
        /\ environments' = r.dataDb["environments"]
        /\ history' = r.historyDb["history"]
        /\ io' = [op |-> "initStorage", before |-> files]
        /\ UNCHANGED <<clock, tpl, ienv, iout, cmd, latest, saved, procs>>

\* the storage directory is deleted with everything in it
RemoveStorageDir ==
    /\ files.dir
    /\ files' = [dir |-> FALSE, data |-> FALSE, history |-> FALSE]
    /\ requests' = <<>>
    /\ environments' = EmptyMap
    /\ history' = <<>>
    /\ latest' = NoLatest
    /\ saved' = EmptyMap
    /\ io' = [op |-> "rm"]
    /\ UNCHANGED <<clock, tpl, ienv, iout, cmd, procs>>

\* data.json is deleted between two operations
RemoveDataFile ==
    /\ files.data
    /\ files' = [files EXCEPT !.data = FALSE]
    /\ requests' = <<>>
    /\ environments' = EmptyMap
    /\ latest' = NoLatest
    /\ saved' = EmptyMap
    /\ io' = [op |-> "unlink"]
    /\ UNCHANGED <<history, clock, tpl, ienv, iout, cmd, procs>>

\* getRequests() / getEnvironments() on the files found: the value of the key
\* read from the document getDb returns, which creates a missing data.json
ReadDataCall(op, key) ==
    IF ~files.dir THEN AdapterThrows(op)
    ELSE /\ files' = DataFileOpened
         /\ io' = [op |-> op, threw |-> FALSE, before |-> files,
                   value |-> getDb(files.data, DataDoc(requests, environments),
                                   DataDefaults)[key]]
         /\ UNCHANGED <<requests, environments, history, clock, tpl, ienv, iout, cmd,
                        latest, saved, procs>>

GetRequestsCall     == ReadDataCall("getRequests", "requests")
GetEnvironmentsCall == ReadDataCall("getEnvironments", "environments")

InitSaveRequest       == SaveRequestOf({ ("name" :> n) @@ ("method" :> MGet) @@ ("url" :> UrlPlain) :
                                           n \in {R1, R2} })
InitSaveEnvironment   == SaveEnvironmentOf({DEV}, {VarsAB, VarsC})
InitRemoveEnvironment == RemoveEnvironmentOf({DEV, QA})
InitRecordHistory     == RecordHistoryOf({JObj(HistoryEntry(UrlFirst))})

NextInit ==
    \/ InitStorageCall
    \/ RemoveStorageDir
    \/ RemoveDataFile
    \/ GetRequestsCall
    \/ GetEnvironmentsCall
    \/ InitSaveRequest
    \/ InitSaveEnvironment
    \/ InitRemoveEnvironment
    \/ InitRecordHistory

SpecInit == InitInit /\ [][NextInit]_vars

\* the step of an initStorage call
C20_InitStep ==
    io'.op = "initStorage" =>
        /\ files' = AllFiles
        /\ IF files.data
           THEN requests' = requests /\ environments' = environments
           ELSE requests' = <<>> /\ environments' = EmptyMap
        /\ IF files.history THEN history' = history ELSE history' = <<>>

\* C20: initStorage is idempotent and non-destructive: called at any point
\* between saves, removals and recorded entries it leaves the stored requests,
\* environments and history as they are; on a missing store it creates the
\* directory and the documents {requests: [], environments: {}} and {history: []}.
C20_InitStorageKeepsData == [][C20_InitStep]_vars

\* initStorage just called on a store holding two requests, an environment
\* and two history entries
C20_Witness ==
    /\ io.op = "initStorage"
    /\ io.before = AllFiles
    /\ Len(requests) = 2
    /\ DEV \in DOMAIN environments
    /\ Len(history) = 2

\* initStorage just called where nothing existed: the directory and both
\* files exist, with the default documents
C20_CreatedWitness ==
    /\ io.op = "initStorage"
    /\ io.before = [dir |-> FALSE, data |-> FALSE, history |-> FALSE]
    /\ files = AllFiles
    /\ procs = NoProcs
    /\ requests = <<>> /\ environments = EmptyMap /\ history = <<>>

\* C21: reads never fail on a store that is not initialized: with the storage
\* directory or data.json missing, getRequests returns an empty sequence and
\* getEnvironments an empty mapping instead of raising an error.
C21_ReadsNeverFail ==
    (io.op \in {"getRequests", "getEnvironments"} /\ ~io.before.data) =>
        /\ ~io.threw
        /\ io.op = "getRequests" => io.value = <<>>
        /\ io.op = "getEnvironments" => io.value = EmptyMap

\* a read that found the directory but no data.json returned the empty
\* collection and left the file behind
ReadCreatesDataFile ==
    (io.op \in {"getRequests", "getEnvironments"} /\ ~io.threw /\ ~io.before.data) =>
        /\ files.data
        /\ io.value = IF io.op = "getRequests" THEN <<>> ELSE EmptyMap

----------------------------------------------------------------------------
(* commands/save.js: the save action *)

\* what the try block of the save action throws, if anything
SaveInputsRejected(name, options) ==
    \/ validateRequestName(name).threw
    \/ validateUrl(Field(options, "url")).threw
    \/ validateHttpMethod(Field(options, "method")).threw
    \/ (Truthy(Field(options, "data")) /\ validateJsonData(Field(options, "data")).threw)

\* the request object the save action builds
SaveRequestObject(name, options) ==
    ("name" :> validateRequestName(name).value)
    @@ ("method" :> validateHttpMethod(Field(options, "method")).value)
    @@ ("url" :> Field(options, "url"))
    @@ ("headers" :> Field(options, "header"))
    @@ ("data" :> IF Truthy(Field(options, "data")) THEN Field(options, "data")
                  ELSE JStr(<<>>))

\* save <name> --url u [-X m] [-H h] [-d data]: [cmd, requests]
saveAction(reqs, name, options) ==
    LET inv == Invocation("save", name, options) @@ [saveCalls |-> 0]
    IN  IF ~Truthy(Field(options, "url"))
        THEN [cmd |-> Exited(inv, <<"error", "hint">>, 1), requests |-> reqs]
        ELSE IF SaveInputsRejected(name, options)
        THEN [cmd |-> Exited(inv, <<"error">>, 1), requests |-> reqs]
        ELSE [cmd |-> [inv EXCEPT
                         !.saveCalls = 1,
                         !.out = IF Truthy(getRequestByName(reqs, validateRequestName(name).value))
                                 THEN <<"warning", "saved">> ELSE <<"saved">>],
              requests |-> saveRequest(reqs, SaveRequestObject(name, options))]

----------------------------------------------------------------------------
(* SpecSave: one invocation of the save command on a store holding no      *)
(* request, r1, or r1 and r2                                               *)

NamePadded    == JStr(<<" ", "r", "2", " ">>)
NameSlash     == JStr(<<"a", "/", "b">>)
NameBlank     == JStr(<<" ">>)
NameLongest   == JStr([i \in 1..MaxNameLength |-> "x"])
NameTooLong   == JStr([i \in 1..(MaxNameLength + 1) |-> "x"])
MethodPatch   == JStr(<<"p","a","t","c","h">>)
DataJson      == JStr(<<"{","\"","a","\"",":","1","}">>)

SaveNameInputs   == { R1, R2, NamePadded, NameSlash, NameBlank, NameLongest, NameTooLong }
SaveUrlInputs    == { JUndef, UrlTemplate, UrlResolved, UrlNoScheme }
SaveMethodInputs == { MGet, MethodPatch, MethodBad }
SaveDataInputs   == { JUndef, Data1, DataJson, DataBadJson }

StoredR2 == ("name" :> R2) @@ ("method" :> MPost) @@ ("url" :> UrlResolved)

InitSave ==
    /\ requests \in { <<>>, <<SavedTemplate>>, <<SavedTemplate, StoredR2>> }
    /\ environments = EmptyMap
    /\ history = <<>>
    /\ clock = 0
    /\ io = NoIo
    /\ tpl = NoTpl
    /\ ienv = EmptyMap
    /\ iout = NoIout
    /\ cmd = NoCmd
    /\ latest = NoLatest
    /\ saved = EmptyMap
    /\ files = AllFiles
    /\ procs = NoProcs

SaveCommand ==
    \E name \in SaveNameInputs, url \in SaveUrlInputs, method \in SaveMethodInputs,
       data \in SaveDataInputs :
        LET r == saveAction(requests, name,
                            ("url" :> url) @@ ("method" :> method) @@ ("data" :> data)
                            @@ ("header" :> JArr(<<HeaderTemplate>>)))
        IN  /\ cmd.pc = "idle"
            /\ cmd' = r.cmd
            /\ requests' = r.requests
            /\ UNCHANGED <<environments, history, clock, io, tpl, ienv, iout, latest,
                           saved, files, procs>>

NextSave == SaveCommand

SpecSave == InitSave /\ [][NextSave]_vars

\* the step of a save invocation
C22_SaveStep ==
    (cmd'.pc = "done" /\ cmd'.command = "save" /\ <<cmd, requests>>' # <<cmd, requests>>) =>
        IF SaveInputsRejected(cmd'.name, cmd'.options)
        THEN /\ cmd'.exit = 1
             /\ cmd'.saveCalls = 0
             /\ requests' = requests
        ELSE /\ cmd'.saveCalls = 1
             /\ cmd'.exit = 0
             /\ LET i == FindIndex(requests', JStr(Trim(cmd'.name.v)))
                IN  /\ i # 0
                    /\ Len(requests'[i].name.v) <= MaxNameLength
                    /\ Len(requests'[i].name.v) > 0
                    /\ ~IsSpace(requests'[i].name.v[1])
                    /\ ~IsSpace(requests'[i].name.v[Len(requests'[i].name.v)])
                    /\ \A k \in 1..Len(requests'[i].name.v) :
                           requests'[i].name.v[k] \notin
                               {"/", "\\", ":", "*", "?", "\"", "<", ">", "|"}
                    /\ requests'[i].method.v \in ValidMethods
                    /\ \A j \in 1..Len(requests') : j # i => \E k \in 1..Len(requests) : requests[k] = requests'[j]

\* C22: the save command touches the store only after every input check has
\* passed: with an invalid name, URL, method or JSON-looking body it exits
\* with code 1 and saveRequest is never called; when all pass, the stored
\* template has the trimmed name (at most 50 characters, none of
\* / \ : * ? " < > |) and an uppercase method out of GET, POST, PUT, PATCH,
\* DELETE, HEAD, OPTIONS.
C22_SaveValidatesFirst == [][C22_SaveStep]_vars

\* save " r2 " -X patch --url http://{{A}}/u -d '{"a":1}' next to r1: stored
\* as r2 with method PATCH
C22_Witness ==
    /\ cmd.pc = "done"
    /\ cmd.command = "save"
    /\ cmd.name = NamePadded
    /\ cmd.exit = 0
    /\ Len(requests) = 2
    /\ requests[1] = SavedTemplate
    /\ requests[2].name = R2
    /\ requests[2].method = JStr(<<"P","A","T","C","H">>)
    /\ requests[2].url = UrlTemplate
    /\ requests[2].data = DataJson

\* save a/b: exit code 1, nothing stored
C22_RejectedWitness ==
    /\ cmd.pc = "done"
    /\ cmd.command = "save"
    /\ cmd.name = NameSlash
    /\ cmd.exit = 1
    /\ requests = <<SavedTemplate>>

----------------------------------------------------------------------------
(* run with -H and --data overrides *)

HeaderOverride  == JStr(<<"K",":"," ","{","{","A","}","}">>)
HeaderNew       == JStr(<<"N",":","{","{","B","}","}"," ">>)
HeaderSavedOnly == JStr(<<"S",":","s">>)

\* the request stored by  save r2 --method POST --url /u -H "K: {{B}}" -H "S:s"
\* -H K -d {{B}}
SavedWithData ==
    ("name" :> R2) @@ ("method" :> MPost) @@ ("url" :> UrlPlain)
    @@ ("headers" :> JArr(<<HeaderTemplate, HeaderSavedOnly, HeaderNoColon>>))
    @@ ("data" :> TemplateB)

OverrideFlags == {HeaderOverride, HeaderGiven, HeaderNew, HeaderNameTemplate, HeaderNoColon}

\* the -H flags of one invocation: none, one or two, repeats included
OverrideLists ==
    {<<>>} \cup { <<a>> : a \in OverrideFlags }
           \cup { <<a, b>> : a \in OverrideFlags, b \in OverrideFlags }

\* --data absent, given, given with a placeholder, given empty
OverrideData == {JUndef, Data1, TemplateA, JStr(<<>>)}

InitRun ==
    /\ requests = <<SavedTemplate, SavedWithData>>
    /\ environments = (DEV :> JObj(VarsAB))
    /\ history = <<>>
    /\ clock = 0
    /\ io = NoIo
    /\ tpl = NoTpl
    /\ ienv = EmptyMap
    /\ iout = NoIout
    /\ cmd = NoCmd
    /\ latest = NoLatest
    /\ saved = environments
    /\ files = AllFiles
    /\ procs = NoProcs

\* run <name> [-H h]... [--data d] [--env dev], once
RunOverrideCommand ==
    /\ cmd.pc = "idle"
    /\ \E name \in {R1, R2}, list \in OverrideLists, data \in OverrideData,
          env \in {JUndef, JStr(DEV)} :
          Started(runAction(requests, environments, name,
                            ("header" :> JArr(list)) @@ ("data" :> data) @@ ("env" :> env)))

NextRun == RunOverrideCommand \/ RunResume

SpecRun == InitRun /\ [][NextRun]_vars

\* a flag with a colon, its name and its value
HasColon(h)  == IndexFrom(h, ":", 1) # 0
FlagName(h)  == Trim(SubSeq(h, 1, IndexFrom(h, ":", 1) - 1))
FlagValue(h) == Trim(SubSeq(h, IndexFrom(h, ":", 1) + 1, Len(h)))

\* the saved header strings followed by the -H flags of the invocation
C23_Flags ==
    LET savedRequest == getRequestByName(requests, cmd.name)
        flags == Field(savedRequest.v, "headers").v \o Field(cmd.options, "header").v
    IN  [i \in 1..Len(flags) |-> flags[i].v]

\* the value after interpolation with the environment of the invocation
C23_Resolved(value) ==
    IF Truthy(Field(cmd.options, "env"))
    THEN interpolate(value, OwnProps(environments[Field(cmd.options, "env").v])).value
    ELSE value

C23_MalformedWitness ==
    /\ cmd.pc = "awaiting" /\ cmd.command = "run" /\ cmd.name = R1
    /\ Field(cmd.options, "header") = JArr(<<HeaderNew, HeaderNoColon>>)
    /\ ~Truthy(Field(cmd.options, "env"))
    /\ DOMAIN cmd.axiosConfig.v.headers = {<<"K">>, <<"N">>}
    /\ cmd.axiosConfig.v.headers[<<"N">>] = TemplateB
    /\ cmd.out = <<"warning">>

----------------------------------------------------------------------------
(* SpecPlain: interpolate on strings over braces, blanks and a key letter, and
   on values that are not strings *)

MaxPlainLen == 5

PlainAlphabet == {"{", "}", " ", "X"}

\* every string up to MaxPlainLen: most hold no placeholder, some hold braces
\* that do not form one, a few hold {{X}}
PlainStrings == UNION { [1..n -> PlainAlphabet] : n \in 0..MaxPlainLen }

NotStrings == { JNull, JUndef, JNum(123), JObj(EmptyMap) }

PlainEnvs == { EmptyMap, (KeyX :> JStr(<<"a">>)), (KeyX :> JNull) @@ (KeyY :> JStr(<<"a">>)) }

InitPlain ==
    /\ requests = <<>>
    /\ environments = EmptyMap
    /\ history = <<>>
    /\ clock = 0
    /\ io = NoIo
    /\ tpl \in { JStr(chars) : chars \in PlainStrings } \cup NotStrings
    /\ ienv \in PlainEnvs
    /\ iout = NoIout
    /\ cmd = NoCmd
    /\ latest = NoLatest
    /\ saved = EmptyMap
    /\ files = AllFiles
    /\ procs = NoProcs

\* interpolate(tpl, ienv)
InterpolateValueCall ==
    LET r == interpolate(tpl, ienv)
    IN  /\ ~iout.done
        /\ iout' = [done |-> TRUE, value |-> r.value, warn |-> r.warn]
        /\ UNCHANGED <<requests, environments, history, clock, io, tpl, ienv, cmd, latest, saved, files, procs>>

NextPlain == InterpolateValueCall

SpecPlain == InitPlain /\ [][NextPlain]_vars

\* s holds a placeholder: "{{", blanks, a key of one or more characters that
\* are neither braces nor blanks, blanks, "}}"
HoldsPlaceholder(s) ==
    \E a \in 1..Len(s), b \in 1..Len(s), c \in 1..Len(s), d \in 1..Len(s) :
        /\ a + 2 <= b /\ b <= c /\ c < d /\ d + 1 <= Len(s)
        /\ s[a] = "{" /\ s[a + 1] = "{"
        /\ \A i \in (a + 2)..(b - 1) : s[i] = " "
        /\ \A i \in b..c : s[i] \notin {"{", "}", " "}
        /\ \A i \in (c + 1)..(d - 1) : s[i] = " "
        /\ s[d] = "}" /\ s[d + 1] = "}"

\* C24: interpolate returns a string that holds no placeholder unchanged, with
\* no warning, whatever the variables are (none included), and returns a value
\* that is not a string as it is.
C24_NoPlaceholderUnchanged ==
    (iout.done /\ (~IsString(tpl) \/ ~HoldsPlaceholder(tpl.v))) =>
        /\ iout.value = tpl
        /\ iout.warn = 0

\* interpolate("{{ }}", {X: "a"}) went through the replace and came back as it was
C24_Witness ==
    /\ iout.done
    /\ tpl = JStr(<<"{","{"," ","}","}">>)
    /\ ienv = (KeyX :> JStr(<<"a">>))
    /\ iout.value = tpl

\* interpolate(123, {}) is the number 123
C24_NonStringWitness ==
    /\ iout.done
    /\ tpl = JNum(123)
    /\ ienv = EmptyMap
    /\ iout.value = JNum(123)

\* the strings with a placeholder are among the inputs: "{{X}}" became "a"
C24_ReplacedWitness ==
    /\ iout.done
    /\ tpl = JStr(<<"{","{","X","}","}">>)
    /\ iout.value = JStr(<<"a">>)

----------------------------------------------------------------------------
(* The order of getHistory against the order of the appends *)

\* C25: after two or more recordHistory calls getHistory returns the entries
\* most recently appended first: position 1 holds the entry appended last,
\* position i the i-th most recently appended one, also when appends fell
\* within the same millisecond.
C25_LastAppendedFirst ==
    (io.op = "getHistory" /\ Asked(io.limit) >= 0 /\ Len(history) >= 2) =>
        \A i \in 1..Len(io.result) : io.result[i] = history[Len(history) + 1 - i]

\* the entries of seq stamped with the time t, in the order of seq
StampedAt(seq, t) == SelectSeq(seq, LAMBDA e : TimeOf(e) = t)

----------------------------------------------------------------------------
(* The storage calls on the whole documents: each call opens its file with *)
(* getDb, changes one key of the document in memory and writes the         *)
(* document back                                                           *)

\* db.get('requests') ... .assign(request) / .push(request)
saveRequestDb(db, request) ==
    [db EXCEPT !["requests"] = saveRequest(db["requests"], request)]

\* db.setState({environments: ...}): the other key of the document is dropped
saveEnvironmentDbAlone(db, name, variables) ==
    DataDoc(<<>>, saveEnvironment(db["environments"], name, variables))

\* db.set(`environments.${name}`, variables): the path starts at the
\* environments key
saveEnvironmentDb(db, name, variables) ==
    [db EXCEPT !["environments"] = saveEnvironment(db["environments"], name, variables)]

\* db.has(`environments.${name}`), db.unset(`environments.${name}`): [threw, db]
removeEnvironmentDb(db, name) ==
    LET r == removeEnvironment(db["environments"], name)
    IN  [threw |-> r.threw, db |-> [db EXCEPT !["environments"] = r.envs]]

\* db.get('history').push(entryWithTimestamp)
recordHistoryDb(db, entry, now) ==
    [db EXCEPT !["history"] = recordHistory(db["history"], entry, now).history]

\* data.json and history.json as they are on disk
DataFile    == DataDoc(requests, environments)
HistoryFile == HistoryDoc(history)

\* db.write() on data.json
DataWritten(db) ==
    /\ requests' = db["requests"]
    /\ environments' = db["environments"]

InitDocs == InitStore

DocSaveRequest ==
    \E n \in {R1, R2}, me \in {MGet, MPost} :
        LET request == ("name" :> n) @@ ("method" :> me) @@ ("url" :> UrlPlain)
            db == getDb(files.data, DataFile, DataDefaults)
        IN  /\ DataWritten(saveRequestDb(db, request))
            /\ io' = [op |-> "saveRequest", request |-> request]
            /\ UNCHANGED <<history, clock, tpl, ienv, iout, cmd, latest, saved, files, procs>>

DocSaveEnvironment ==
    \E name \in {DEV, NameAB}, variables \in VarSets :
        LET db == getDb(files.data, DataFile, DataDefaults)
        IN  /\ DataWritten(saveEnvironmentDb(db, name, variables))
            /\ io' = [op |-> "saveEnvironment", name |-> name]
            /\ UNCHANGED <<history, clock, tpl, ienv, iout, cmd, latest, saved, files, procs>>

DocRemoveEnvironment ==
    \E name \in {DEV, NameA, QA} :
        LET db == getDb(files.data, DataFile, DataDefaults)
            r  == removeEnvironmentDb(db, name)
        IN  /\ DataWritten(IF r.threw THEN db ELSE r.db)
            /\ io' = [op |-> "removeEnvironment", name |-> name, threw |-> r.threw]
            /\ UNCHANGED <<history, clock, tpl, ienv, iout, cmd, latest, saved, files, procs>>

DocRecordHistory ==
    \E url \in {UrlFirst, UrlSecond} :
        LET db == getDb(files.history, HistoryFile, HistoryDefaults)
        IN  /\ Len(history) < MaxEntries
            /\ history' = recordHistoryDb(db, JObj(HistoryEntry(url)), clock)["history"]
            /\ io' = [op |-> "recordHistory", url |-> url]
            /\ UNCHANGED <<requests, environments, clock, tpl, ienv, iout, cmd, latest, saved,
                           files, procs>>

\* getHistoryDb() writes the document back before getHistory reads it
DocGetHistory ==
    \E limit \in {JUndef, JNum(1)} :
        LET db == getDb(files.history, HistoryFile, HistoryDefaults)
        IN  /\ history' = db["history"]
            /\ io' = [op |-> "getHistory", limit |-> limit,
                      result |-> getHistory(db["history"], limit)]
            /\ UNCHANGED <<requests, environments, clock, tpl, ienv, iout, cmd, latest, saved,
                           files, procs>>

NextDocs ==
    \/ DocSaveRequest
    \/ DocSaveEnvironment
    \/ DocRemoveEnvironment
    \/ DocRecordHistory
    \/ DocGetHistory

SpecDocs == InitDocs /\ [][NextDocs]_vars

\* the step of one storage call, by the call that was made
C27_CallStep ==
    /\ io'.op \in {"saveEnvironment", "removeEnvironment"} =>
          requests' = requests /\ history' = history
    /\ io'.op = "saveRequest" =>
          environments' = environments /\ history' = history
    /\ io'.op \in {"recordHistory", "getHistory"} =>
          requests' = requests /\ environments' = environments

\* C27: saveEnvironment and removeEnvironment leave the saved requests as they
\* were, saveRequest leaves the environments as they were, none of the three
\* changes the history, and recordHistory and getHistory change neither the
\* saved requests nor the environments.
C27_CollectionsIndependent == [][C27_CallStep]_vars

\* an environment was removed while requests, another environment and history
\* entries were stored
C27_Witness ==
    /\ io.op = "removeEnvironment" /\ ~io.threw /\ io.name = NameA
    /\ Len(requests) = 2
    /\ Len(history) = 2
    /\ DOMAIN environments = {DEV}

\* a request was saved over a stored one while environments and history
\* entries were stored
C27_SaveWitness ==
    /\ io.op = "saveRequest"
    /\ Len(requests) = 1
    /\ requests[1]["method"] = MPost
    /\ DOMAIN environments = {DEV, NameA}
    /\ Len(history) = 1

----------------------------------------------------------------------------
(* SpecRace: two invocations of the CLI, each an operating-system process   *)
(* of its own, calling the storage at the same time. A call reads the file  *)
(* when the adapter is created, writes it when db.defaults(...).write()     *)
(* runs and writes it again when the change is written; nothing locks the   *)
(* file in between                                                          *)

Procs == {1, 2}

\* an adapter that never looks at the file
ReadJsonBlank(exists, doc) == EmptyDoc

\* FileSync.read(): the document of the file, {} when there is no file
ReadJson(exists, doc) == IF exists THEN doc ELSE EmptyDoc

\* the calls the two processes make
RaceCalls ==
    { [op |-> "saveRequest", file |-> "data",
       request |-> ("name" :> n) @@ ("method" :> MGet) @@ ("url" :> UrlPlain)] : n \in {R1, R2} }
    \cup
    { [op |-> "saveEnvironment", file |-> "data", name |-> DEV, variables |-> VarsAB] }
    \cup
    { [op |-> "recordHistory", file |-> "history", entry |-> JObj(HistoryEntry(u))] :
         u \in {UrlFirst, UrlSecond} }

InitRace ==
    /\ requests \in { <<>>, <<SavedTemplate>> }
    /\ environments = EmptyMap
    /\ history = <<>>
    /\ clock = 0
    /\ io = NoIo
    /\ tpl = NoTpl
    /\ ienv = EmptyMap
    /\ iout = NoIout
    /\ cmd = NoCmd
    /\ latest = NoLatest
    /\ saved = EmptyMap
    /\ files = AllFiles
    /\ procs = [of |-> [p \in Procs |-> [pc |-> "idle"]], overlapped |-> FALSE]

\* the file a call works on, as it is on disk
FileOf(call) == IF call.file = "data" THEN DataFile ELSE HistoryFile

\* writeFileSync of the document db to the file of the call
FileWritten(call, db) ==
    IF call.file = "data"
    THEN DataWritten(db) /\ UNCHANGED history
    ELSE history' = db["history"] /\ UNCHANGED <<requests, environments>>

\* the change a call makes to its document in memory
Changed(call, db) ==
    CASE call.op = "saveRequest"     -> saveRequestDb(db, call.request)
      [] call.op = "saveEnvironment" -> saveEnvironmentDb(db, call.name, call.variables)
      [] OTHER                       -> recordHistoryDb(db, call.entry, clock)

\* low(adapter): process p starts a call and reads the file into memory
OpenFile(p) ==
    \E call \in RaceCalls :
        /\ procs.of[p].pc = "idle"
        /\ procs' = [of |-> [procs.of EXCEPT ![p] =
                               [pc |-> "opened", call |-> call,
                                db |-> ReadJson(TRUE, FileOf(call))]],
                     overlapped |-> procs.overlapped
                                    \/ \E q \in Procs \ {p} : procs.of[q].pc \in {"opened", "ready"}]
        /\ UNCHANGED <<requests, environments, history, clock, io, tpl, ienv, iout, cmd,
                       latest, saved, files>>

\* db.defaults(defaultData).write(): the document in memory goes to the file
WriteDefaults(p) ==
    /\ procs.of[p].pc = "opened"
    /\ LET call == procs.of[p].call
           db   == Defaults(procs.of[p].db,
                            IF call.file = "data" THEN DataDefaults ELSE HistoryDefaults)
       IN  /\ FileWritten(call, db)
           /\ procs' = [procs EXCEPT !.of[p].pc = "ready", !.of[p].db = db]
    /\ UNCHANGED <<clock, io, tpl, ienv, iout, cmd, latest, saved, files>>

\* the change and its .write(): the document in memory goes to the file again
WriteChange(p) ==
    /\ procs.of[p].pc = "ready"
    /\ LET call == procs.of[p].call
           db   == Changed(call, procs.of[p].db)
       IN  /\ FileWritten(call, db)
           /\ procs' = [procs EXCEPT !.of[p].pc = "done", !.of[p].db = db]
    /\ UNCHANGED <<clock, io, tpl, ienv, iout, cmd, latest, saved, files>>

NextRace == \E p \in Procs : OpenFile(p) \/ WriteDefaults(p) \/ WriteChange(p)

SpecRace == InitRace /\ [][NextRace]_vars

\* the write of a finished call is in the file
InFile(call) ==
    CASE call.op = "saveRequest"     -> FindIndex(requests, call.request["name"]) # 0
      [] call.op = "saveEnvironment" -> GetProp(environments, call.name) = JObj(call.variables)
      [] OTHER ->
           Cardinality({ i \in 1..Len(history) : history[i]["url"] = call.entry.v["url"] })
             >= Cardinality({ q \in Procs : /\ procs.of[q].pc = "done"
                                            /\ procs.of[q].call = call })

\* a call has returned and its write is not in the file
LostWrite == \E p \in Procs : procs.of[p].pc = "done" /\ ~InFile(procs.of[p].call)

\* C28: a mutating call reads the whole file and writes the whole file with no
\* lock. When the calls are strictly sequential, each returning before the
\* next one starts, no write is ever lost; when two of them interleave, a
\* state is reachable where the file lacks one of the writes.
C28_SequentialWritesKept == ~procs.overlapped => ~LostWrite

\* saveRequest(r1) and saveRequest(r2) interleaved: both returned, r1 is not in
\* the file
C28_Witness ==
    /\ \A p \in Procs : procs.of[p].pc = "done" /\ procs.of[p].call.op = "saveRequest"
    /\ procs.of[1].call.request["name"] = R1
    /\ procs.of[2].call.request["name"] = R2
    /\ procs.overlapped
    /\ FindIndex(requests, R1) = 0
    /\ FindIndex(requests, R2) # 0

\* two recordHistory calls interleaved: both returned, one entry in the ledger
C28_HistoryWitness ==
    /\ \A p \in Procs : procs.of[p].pc = "done" /\ procs.of[p].call.op = "recordHistory"
    /\ procs.overlapped
    /\ Len(history) = 1

\* the two calls one after the other: both returned, both requests in the file
C28_SequentialWitness ==
    /\ \A p \in Procs : procs.of[p].pc = "done" /\ procs.of[p].call.op = "saveRequest"
    /\ ~procs.overlapped
    /\ FindIndex(requests, R1) # 0
    /\ FindIndex(requests, R2) # 0

----------------------------------------------------------------------------
(* Environment names through saveEnvironment, the readers and removeEnvironment *)

\* the step of a saveEnvironment or removeEnvironment call with a name that
\* validateEnvironmentName accepts as it is
C29_NameStep ==
    /\ (io'.op = "saveEnvironment" /\ io' # io
        /\ validateEnvironmentName(JStr(io'.name)) = [threw |-> FALSE, value |-> JStr(io'.name)]) =>
          /\ GetProp(getEnvironments(environments'), io'.name) = JObj(io'.variables)
          /\ getEnv(environments', JStr(io'.name)) = [threw |-> FALSE, env |-> JObj(io'.variables)]
          /\ DOMAIN environments' = DOMAIN environments \cup {io'.name}
          /\ \A k \in DOMAIN environments \ {io'.name} : environments'[k] = environments[k]
    /\ (io'.op = "removeEnvironment" /\ io' # io /\ ~io'.threw) =>
          /\ io'.name \in DOMAIN environments
          /\ environments' = DelProp(environments, io'.name)

\* C29: for every name validateEnvironmentName accepts, names with a dot and
\* names of inherited properties included, after saveEnvironment(name, vars)
\* getEnvironments()[name] and getEnv(name) are vars, exactly the environment
\* of that name was added or replaced, and removeEnvironment(name) removes
\* exactly that entry.
C29_NameRoundTrip == [][C29_NameStep]_vars

----------------------------------------------------------------------------
(* SpecDeliver: run and request while the storage directory can disappear   *)
(* between the dispatch of the request and the arrival of the response      *)

InitDeliver == InitCmd

\* the storage directory is deleted while the command awaits sendRequest
StorageDirLost == cmd.pc = "awaiting" /\ RemoveStorageDir

NextDeliver ==
    \/ RunCommand
    \/ RequestCommand
    \/ StorageDirLost
    \/ RunResume
    \/ RequestResume

SpecDeliver == InitDeliver /\ [][NextDeliver]_vars

\* the step in which the awaited sendRequest of run or request returns a Response
C30_DeliveredStep ==
    (/\ cmd.pc = "awaiting" /\ cmd.command \in {"run", "request"}
     /\ cmd'.pc = "done" /\ cmd'.wire.kind = "response") =>
        /\ \A i \in 1..Len(cmd'.out) : cmd'.out[i] # "printError"
        /\ cmd'.exit # 2

\* C30: in run and request, once sendRequest has returned a Response, whatever
\* its status, the command neither calls printError nor exits with code 2,
\* also when recording the history entry afterwards fails.
C30_DeliveredNeverFailure == [][C30_DeliveredStep]_vars

====
